---- MODULE Spec2Model ----
(***************************************************************************)
(* Post-processing of one BOLD run (xcp_d, init_boldpostprocess_wf).       *)
(*                                                                         *)
(* The workflow function builds a graph of stages (nodes) and connections  *)
(* (edges); the workflow engine then runs every stage whose upstream       *)
(* stages have finished and hands it their outputs.  The graph (nodes,     *)
(* edges, the parameters every stage is constructed with) is translated    *)
(* from src/xcp_d/workflows/bold.py.  The stage interfaces (CensorScrub,   *)
(* Regress, Interpolate, FilteringData, RemoveTR, ...) live outside the    *)
(* sources at hand and are modelled from the specification's contracts.    *)
(*                                                                         *)
(* Units.  Times are in tenths of a second (TR = 20 is 2.0 s), frequencies *)
(* in hundredths of a hertz (25 is 0.25 Hz), translations and framewise    *)
(* displacement in tenths of a millimetre, rotations in units of 0.002 rad *)
(* (so that a rotation of 1 at the default head radius of 50 mm moves the  *)
(* surface by one displacement unit), coverage fractions in percent.       *)
(* Residuals are kept in exact integer arithmetic: a residual series is a  *)
(* positive multiple of the least-squares residual.                        *)
(***************************************************************************)
EXTENDS Integers, Sequences, FiniteSets, TLC

VARIABLES cfg, inp, phase, nodes, edges, status, prod, files, errors,
          run, other, disk, bold_fname, mem_gbx

\* cfg .. errors are the workflow of the run being stepped, run is the BOLD
\* file it was built for; other is the workflow of a second run in progress;
\* disk is the output directory, which the runs of one invocation share;
\* bold_fname is the BOLD file on disk (its size), mem_gbx the memory estimate
\* made for the run
vars == <<cfg, inp, phase, nodes, edges, status, prod, files, errors,
          run, other, disk, bold_fname, mem_gbx>>

---------------------------------------------------------------------------
(* Bounds of the model *)

\* frames of the BOLD series of a run
MaxFrames == 5

---------------------------------------------------------------------------
(* Arithmetic helpers *)

Abs(x) == IF x < 0 THEN -x ELSE x

Min2(a, b) == IF a < b THEN a ELSE b

\* greatest common divisor (Euclid), the operands bound once as values
RECURSIVE Gcd(_, _)
Gcd(a, b) ==
    CHOOSE r \in {IF y = 0 THEN x ELSE Gcd(y, x % y) : x \in {a}, y \in {b}} : TRUE

RECURSIVE SumSeq(_)
SumSeq(s) == IF s = <<>> THEN 0 ELSE Head(s) + SumSeq(Tail(s))

Dot(a, b) == SumSeq([i \in 1..Len(a) |-> a[i] * b[i]])

RECURSIVE GcdSeq(_)
GcdSeq(s) == IF s = <<>> THEN 0 ELSE Gcd(Abs(Head(s)), GcdSeq(Tail(s)))

\* the rows of s whose index keep retains, in order
RECURSIVE SelectRows(_, _)
SelectRows(s, keep) ==
    IF s = <<>> \/ keep = <<>> THEN <<>>
    ELSE IF Head(keep) THEN <<Head(s)>> \o SelectRows(Tail(s), Tail(keep))
         ELSE SelectRows(Tail(s), Tail(keep))

CountTrue(keep) == Cardinality({i \in 1..Len(keep) : keep[i]})

\* s without its first n rows
DropFirst(s, n) == IF n >= Len(s) THEN <<>> ELSE SubSeq(s, n + 1, Len(s))

---------------------------------------------------------------------------
(* Stage interfaces.  Every stage returns [ok, err, out]: out holds the    *)
(* stage's output fields when ok, err the fatal error otherwise.           *)

NoErr == [type |-> "none", cutoff |-> 0, nyquist_num |-> 0, nyquist_den |-> 1]

Err(t) == [type |-> t, cutoff |-> 0, nyquist_num |-> 0, nyquist_den |-> 1]

Ok(o) == [ok |-> TRUE, err |-> NoErr, out |-> o]

Fail(e) == [ok |-> FALSE, err |-> e, out |-> [none |-> TRUE]]

\* cutoff (1/100 Hz) at or above the Nyquist frequency 1/(2*TR) (TR in 1/10 s)
AtOrAboveNyquist(cutoff, TR) == 2 * TR * cutoff >= 1000

\* the ValidationError of a cutoff that violates Nyquist: it names both values,
\* the Nyquist frequency as the fraction nyquist_num/nyquist_den (1/100 Hz)
NyquistError(cutoff, TR) ==
    [type |-> "ValidationError", cutoff |-> cutoff,
     nyquist_num |-> 1000, nyquist_den |-> 2 * TR]

\* zero-phase three-tap low-pass (1 2 1), edges replicated; keeps the length
Smooth(s) ==
    [i \in 1..Len(s) |->
        s[IF i = 1 THEN 1 ELSE i - 1] + 2 * s[i]
        + s[IF i = Len(s) THEN Len(s) ELSE i + 1]]

NoCustom == [present |-> FALSE, name |-> "", col |-> <<>>]

\* the regressor the selected parameter set takes from the standard table
StandardNames == {"x"}

\* Confound Consolidator: standard regressors plus the optional custom table
ConsolidateConfounds(table, custom, params) ==
    IF ~custom.present
    THEN Ok([out_file |-> [i \in 1..Len(table) |-> <<table[i].x>>]])
    ELSE IF Len(custom.col) # Len(table) \/ custom.name \in StandardNames
    THEN Fail(Err("ConfigurationError"))
    ELSE Ok([out_file |->
                [i \in 1..Len(table) |-> <<table[i].x, custom.col[i]>>]])

\* number of leading rows of the table flagged non-steady-state
RECURSIVE LeadingFlagged(_)
LeadingFlagged(table) ==
    IF table = <<>> \/ ~Head(table).nss THEN 0
    ELSE 1 + LeadingFlagged(Tail(table))

\* Dummy-Volume Trimmer: the same leading frames leave the signal, the
\* consolidated confounds and the motion/confound table
RemoveTR(bold_file, confounds_file, fmriprep_confounds_file, dummy_scans) ==
    LET n == IF dummy_scans.auto THEN LeadingFlagged(fmriprep_confounds_file)
             ELSE dummy_scans.n
        k == IF n < 0 THEN 0 ELSE n
    IN  Ok([bold_file_dropped_TR |-> DropFirst(bold_file, k),
            confounds_file_dropped_TR |-> DropFirst(confounds_file, k),
            fmriprep_confounds_file_dropped_TR |->
                DropFirst(fmriprep_confounds_file, k),
            dummy_scans |-> k])

\* Motion Filter: "none" is the pass-through mode; the filtering modes
\* smooth the channel at unit gain
MotionFilter(mode, channel) ==
    IF mode = "none" THEN channel
    ELSE [i \in 1..Len(channel) |-> Smooth(channel)[i] \div 4]

\* the cutoff of the motion filter that violates Nyquist, 0 when none does
MotionFilterOffender(p) ==
    IF p.motion_filter_type = "lp"
    THEN (IF AtOrAboveNyquist(p.band_stop_min, p.TR) THEN p.band_stop_min ELSE 0)
    ELSE IF p.motion_filter_type = "notch"
    THEN (IF AtOrAboveNyquist(p.band_stop_min, p.TR) THEN p.band_stop_min
          ELSE IF AtOrAboveNyquist(p.band_stop_max, p.TR) THEN p.band_stop_max
          ELSE 0)
    ELSE 0

\* framewise displacement: zero for the first frame, then the absolute
\* frame-to-frame differences, rotations scaled by the head radius
FramewiseDisplacement(trans, rot, head_radius) ==
    [i \in 1..Len(trans) |->
        IF i = 1 THEN 0
        ELSE Abs(trans[i] - trans[i - 1])
             + (head_radius * Abs(rot[i] - rot[i - 1])) \div 50]

\* frames the motion rule censors: displacement at or above the threshold
MotionOutlier(fd, fd_thresh) == [i \in 1..Len(fd) |-> fd[i] >= fd_thresh]

\* Censoring-Mask Builder.  p holds the parameters the node is constructed
\* with; a coverage flag can only be raised when min_coverage is among them.
CensorScrub(in_file, confounds_file, fmriprep_confounds_file, head_radius, p) ==
    IF MotionFilterOffender(p) # 0
    THEN Fail(NyquistError(MotionFilterOffender(p), p.TR))
    ELSE IF Len(in_file) # Len(fmriprep_confounds_file)
            \/ Len(in_file) # Len(confounds_file)
    THEN Fail(Err("ValidationError"))
    ELSE
    LET n     == Len(fmriprep_confounds_file)
        trans == MotionFilter(p.motion_filter_type,
                              [i \in 1..n |-> fmriprep_confounds_file[i].trans])
        rot   == MotionFilter(p.motion_filter_type,
                              [i \in 1..n |-> fmriprep_confounds_file[i].rot])
        fd    == FramewiseDisplacement(trans, rot, head_radius)
        out   == MotionOutlier(fd, p.fd_thresh)
        tmask == [i \in 1..n |->
                    ~(out[i] \/ fmriprep_confounds_file[i].nss)]
        kept  == CountTrue(tmask)
    IN  Ok([bold_censored |-> SelectRows(in_file, tmask),
            confounds_censored |-> SelectRows(confounds_file, tmask),
            tmask |-> tmask,
            tmask_metadata |-> "tmask_metadata",
            filtered_motion |-> fd,
            filtered_motion_metadata |-> "filtered_motion_metadata",
            retained |-> kept,
            low_coverage |->
                IF "min_coverage" \in DOMAIN p
                THEN kept * 100 < p.min_coverage * n ELSE FALSE])

\* amplitude ceiling of the despike stage
DespikeCeiling == 1

\* Despike Stage: clips amplitudes, keeps every frame (a series here has one
\* dimension, so malformed dimensions do not arise)
DespikePatch(in_file) ==
    Ok([out_file |-> [i \in 1..Len(in_file) |-> Min2(in_file[i], DespikeCeiling)]])

\* v scaled down by the greatest common divisor of its entries
Normalize(v) ==
    LET g == GcdSeq(v) IN IF g <= 1 THEN v ELSE [i \in 1..Len(v) |-> v[i] \div g]

\* v with its component along b removed (times the positive factor b.b);
\* x and y are v and b bound once as values
ProjectOut(v, b) ==
    CHOOSE r \in {IF Dot(y, y) = 0 THEN x
                  ELSE Normalize([i \in 1..Len(x) |->
                                     Dot(y, y) * x[i] - Dot(x, y) * y[i]]) :
                  x \in {v}, y \in {b}} : TRUE

\* v with its components along the mutually orthogonal vectors of basis removed
RECURSIVE ProjectOutAll(_, _)
ProjectOutAll(v, basis) ==
    IF basis = <<>> THEN v
    ELSE CHOOSE r \in {ProjectOutAll(w, Tail(basis)) :
                          w \in {ProjectOut(v, Head(basis))}} : TRUE

\* Gram-Schmidt: the columns made mutually orthogonal, in order
RECURSIVE Orthogonalize(_, _)
Orthogonalize(cols, basis) ==
    IF cols = <<>> THEN basis
    ELSE CHOOSE r \in {Orthogonalize(Tail(cols), Append(basis, w)) :
                          w \in {ProjectOutAll(Head(cols), basis)}} : TRUE

\* the design without the regressor columns
DesignColumns_NoRegressors(confounds) ==
    <<[i \in 1..Len(confounds) |-> 1], [i \in 1..Len(confounds) |-> i]>>

\* the design: the constant and the linear-in-time term (mean-centring and
\* linear detrending over the frames of the fit), then the regressor columns
DesignColumns(confounds) ==
    LET n == Len(confounds)
        p == IF n = 0 THEN 0 ELSE Len(confounds[1])
    IN  <<[i \in 1..n |-> 1], [i \in 1..n |-> i]>>
        \o [c \in 1..p |-> [i \in 1..n |-> confounds[i][c]]]

\* Regression Engine: least-squares residual of the signal on the design
Regress(in_file, confounds, p) ==
    LET n    == Len(in_file)
        ncol == IF confounds = <<>> THEN 0 ELSE Len(confounds[1])
    IN  IF n # Len(confounds) THEN Fail(Err("ShapeMismatchError"))
        ELSE IF n <= ncol THEN Fail(Err("UnderdeterminedSystemError"))
        ELSE Ok([res_file |->
                    CHOOSE r \in {ProjectOutAll(in_file, basis) :
                        basis \in {Orthogonalize(DesignColumns(confounds), <<>>)}} :
                        TRUE,
                 confound_matrix |-> confounds])

\* index of s-th retained frame before/after i, 0 when there is none
PrevKept(tmask, i) ==
    IF \E j \in 1..(i - 1) : tmask[j]
    THEN CHOOSE j \in 1..(i - 1) : tmask[j] /\ \A k \in (j + 1)..(i - 1) : ~tmask[k]
    ELSE 0

NextKept(tmask, i) ==
    IF \E j \in (i + 1)..Len(tmask) : tmask[j]
    THEN CHOOSE j \in (i + 1)..Len(tmask) :
            tmask[j] /\ \A k \in (i + 1)..(j - 1) : ~tmask[k]
    ELSE 0

\* position of full-length frame i among the retained frames
RankKept(tmask, i) == Cardinality({j \in 1..i : tmask[j]})

\* Interpolator: full-length series, retained frames copied, censored frames
\* estimated on the line through the nearest retained frames
Interpolate(in_file, tmask, bold_file, p) ==
    IF CountTrue(tmask) < 2 THEN Fail(Err("InsufficientDataError"))
    ELSE IF CountTrue(tmask) # Len(in_file) THEN Fail(Err("ShapeMismatchError"))
    ELSE
    LET at(i) == in_file[RankKept(tmask, i)]
        est(i) ==
            LET a == PrevKept(tmask, i)
                b == NextKept(tmask, i)
            IN  IF a = 0 THEN at(b)
                ELSE IF b = 0 THEN at(a)
                ELSE at(a) + ((at(b) - at(a)) * (i - a)) \div (b - a)
    IN  Ok([bold_interpolated |->
                [i \in 1..Len(tmask) |-> IF tmask[i] THEN at(i) ELSE est(i)]])

\* the cutoff of the band-pass filter that violates Nyquist, 0 when none does
BandpassOffender(p) ==
    IF AtOrAboveNyquist(p.lowpass, p.TR) THEN p.lowpass
    ELSE IF AtOrAboveNyquist(p.highpass, p.TR) THEN p.highpass
    ELSE 0

\* Band-pass Filter: pass-through when the flag is off
FilteringData(in_file, p) ==
    IF ~p.bandpass_filter THEN Ok([filtered_file |-> in_file])
    ELSE IF BandpassOffender(p) # 0
    THEN Fail(NyquistError(BandpassOffender(p), p.TR))
    ELSE Ok([filtered_file |-> Smooth(in_file)])

---------------------------------------------------------------------------
(* The workflow graph built by init_boldpostprocess_wf.  An edge           *)
(* <<src, out, dst, in>> hands output field out of node src to input       *)
(* field in of node dst; a field of a nested workflow's input or output    *)
(* node is written inputnode_x, outputnode_x.                              *)

\* Python truth value of dummy_scans: "auto" and every nonzero integer
Truthy(dummy_scans) == dummy_scans.auto \/ dummy_scans.n # 0

\* ceil(a / b) for b > 0
CeilDiv(a, b) == -((-a) \div b)

\* the dummytime conversion rounding down
EffectiveDummyScans_Floor(c) ==
    IF ~c.dummy_scans.auto /\ c.dummy_scans.n = 0 /\ c.dummytime # 0
    THEN [auto |-> FALSE, n |-> c.dummytime \div c.TR]
    ELSE c.dummy_scans

\* dummy_scans after the dummytime conversion
EffectiveDummyScans(c) ==
    IF ~c.dummy_scans.auto /\ c.dummy_scans.n = 0 /\ c.dummytime # 0
    THEN [auto |-> FALSE, n |-> CeilDiv(c.dummytime, c.TR)]
    ELSE c.dummy_scans

\* the censoring node constructed with another parameter as its threshold
CensorScrubParams_WrongThreshold(c) ==
    [TR |-> c.TR, band_stop_min |-> c.band_stop_min,
     band_stop_max |-> c.band_stop_max,
     motion_filter_type |-> c.motion_filter_type,
     motion_filter_order |-> c.motion_filter_order,
     fd_thresh |-> c.band_stop_min]

\* dummy_scans_str: what the description of the workflow says of the
\* discarded volumes, "" when it says nothing
DummyScansStr(c) ==
    IF EffectiveDummyScans(c).auto THEN "non-steady-state volumes were discarded"
    ELSE IF EffectiveDummyScans(c).n > 0 THEN "the first volumes were discarded"
    ELSE ""

\* parameters the censoring node is constructed with
CensorScrubParams(c) ==
    [TR |-> c.TR, band_stop_min |-> c.band_stop_min,
     band_stop_max |-> c.band_stop_max,
     motion_filter_type |-> c.motion_filter_type,
     motion_filter_order |-> c.motion_filter_order,
     fd_thresh |-> c.fd_thresh]

\* the band-pass node constructed with the lower cutoff in both places
FilteringDataParams_LowpassFromLower(c) ==
    [TR |-> c.TR, lowpass |-> c.lower_bpf, highpass |-> c.lower_bpf,
     filter_order |-> c.bpf_order, bandpass_filter |-> c.bandpass_filter]

\* parameters the band-pass node is constructed with
FilteringDataParams(c) ==
    [TR |-> c.TR, lowpass |-> c.upper_bpf, highpass |-> c.lower_bpf,
     filter_order |-> c.bpf_order, bandpass_filter |-> c.bandpass_filter]

\* parameters the regression and interpolation nodes are constructed with
RegressParams(c) == [TR |-> c.TR, params |-> c.params]

InterpolateParams(c) == [TR |-> c.TR]

\* parameters of the connectivity workflow: the only user of min_coverage
FconParams(c) == [min_coverage |-> c.min_coverage]

\* nodes that exist for every configuration
BaseNodes ==
    {"inputnode", "downcast_data", "determine_head_radius", "fcons_ts_wf",
     "nifti_reho_wf", "write_derivative_wf", "censoring", "resd_smoothing_wf",
     "filtering_wf", "consolidate_confounds_node", "plot_design_matrix_node",
     "regression_wf", "interpolation_wf", "qc_report_wf",
     "ds_design_matrix_plot", "ds_report_connectivity", "ds_report_rehoplot"}

\* the ALFF nodes created when the cutoffs describe a band
GatedNodes_AlffFromCutoffs(c) ==
    (IF c.lower_bpf < c.upper_bpf THEN {"compute_alff_wf", "ds_report_alffplot"}
     ELSE {})
    \cup (IF Truthy(EffectiveDummyScans(c)) THEN {"remove_dummy_scans"} ELSE {})
    \cup (IF c.despike THEN {"despike3d"} ELSE {})
    \cup (IF c.dcan_qc THEN {"executive_summary_wf"} ELSE {})

\* nodes that exist only when their gate is set
GatedNodes(c) ==
    (IF c.bandpass_filter THEN {"compute_alff_wf", "ds_report_alffplot"} ELSE {})
    \cup (IF Truthy(EffectiveDummyScans(c)) THEN {"remove_dummy_scans"} ELSE {})
    \cup (IF c.despike THEN {"despike3d"} ELSE {})
    \cup (IF c.dcan_qc THEN {"executive_summary_wf"} ELSE {})

DowncastEdges ==
    {<<"inputnode", f, "downcast_data", f>> :
        f \in {"bold_file", "ref_file", "bold_mask", "t1w", "t1seg", "t1w_mask"}}

HeadRadiusEdges ==
    {<<"downcast_data", "t1w_mask", "determine_head_radius", "mask_file">>}

ConsolidateEdges ==
    {<<"inputnode", "bold_file", "consolidate_confounds_node", "img_file">>,
     <<"inputnode", "custom_confounds_file", "consolidate_confounds_node",
       "custom_confounds_file">>}

QcInputEdges ==
    {<<"inputnode", "bold_file", "qc_report_wf", "inputnode_preprocessed_bold_file">>,
     <<"inputnode", "ref_file", "qc_report_wf", "inputnode_boldref">>,
     <<"inputnode", "bold_mask", "qc_report_wf", "inputnode_bold_mask">>,
     <<"inputnode", "t1w_mask", "qc_report_wf", "inputnode_t1w_mask">>,
     <<"inputnode", "template_to_t1w", "qc_report_wf", "inputnode_template_to_t1w">>,
     <<"inputnode", "t1w_to_native", "qc_report_wf", "inputnode_t1w_to_native">>,
     <<"determine_head_radius", "head_radius", "qc_report_wf", "inputnode_head_radius">>,
     <<"interpolation_wf", "bold_interpolated", "qc_report_wf",
       "inputnode_cleaned_unfiltered_file">>}

\* the trimmer connected, the censoring stage's signal also still connected to
\* the downcast stage
DummyScanEdges_BothSources(c) ==
    {<<"downcast_data", "bold_file", "censoring", "in_file">>}
    \cup
    (IF Truthy(EffectiveDummyScans(c))
     THEN {<<"inputnode", "dummy_scans", "remove_dummy_scans", "dummy_scans">>,
           <<"inputnode", "fmriprep_confounds_tsv", "remove_dummy_scans",
             "fmriprep_confounds_file">>,
           <<"downcast_data", "bold_file", "remove_dummy_scans", "bold_file">>,
           <<"consolidate_confounds_node", "out_file", "remove_dummy_scans",
             "confounds_file">>,
           <<"remove_dummy_scans", "bold_file_dropped_TR", "censoring", "in_file">>,
           <<"remove_dummy_scans", "confounds_file_dropped_TR", "censoring",
             "confounds_file">>,
           <<"remove_dummy_scans", "fmriprep_confounds_file_dropped_TR",
             "censoring", "fmriprep_confounds_file">>,
           <<"remove_dummy_scans", "dummy_scans", "qc_report_wf",
             "inputnode_dummy_scans">>}
     ELSE {<<"inputnode", "dummy_scans", "qc_report_wf", "inputnode_dummy_scans">>,
           <<"inputnode", "fmriprep_confounds_tsv", "censoring",
             "fmriprep_confounds_file">>,
           <<"consolidate_confounds_node", "out_file", "censoring",
             "confounds_file">>})

\* the trimmer connected, the censoring stage still fed the untrimmed inputs
DummyScanEdges_NotRewired(c) ==
    {<<"downcast_data", "bold_file", "censoring", "in_file">>,
     <<"inputnode", "fmriprep_confounds_tsv", "censoring",
       "fmriprep_confounds_file">>,
     <<"consolidate_confounds_node", "out_file", "censoring", "confounds_file">>}
    \cup
    (IF Truthy(EffectiveDummyScans(c))
     THEN {<<"inputnode", "dummy_scans", "remove_dummy_scans", "dummy_scans">>,
           <<"inputnode", "fmriprep_confounds_tsv", "remove_dummy_scans",
             "fmriprep_confounds_file">>,
           <<"downcast_data", "bold_file", "remove_dummy_scans", "bold_file">>,
           <<"consolidate_confounds_node", "out_file", "remove_dummy_scans",
             "confounds_file">>,
           <<"remove_dummy_scans", "dummy_scans", "qc_report_wf",
             "inputnode_dummy_scans">>}
     ELSE {<<"inputnode", "dummy_scans", "qc_report_wf", "inputnode_dummy_scans">>})

\* the trimmer connected, the censoring stage fed the untrimmed confounds
DummyScanEdges_MixedConfounds(c) ==
    IF Truthy(EffectiveDummyScans(c))
    THEN {<<"inputnode", "dummy_scans", "remove_dummy_scans", "dummy_scans">>,
          <<"inputnode", "fmriprep_confounds_tsv", "remove_dummy_scans",
            "fmriprep_confounds_file">>,
          <<"downcast_data", "bold_file", "remove_dummy_scans", "bold_file">>,
          <<"consolidate_confounds_node", "out_file", "remove_dummy_scans",
            "confounds_file">>,
          <<"remove_dummy_scans", "bold_file_dropped_TR", "censoring", "in_file">>,
          <<"consolidate_confounds_node", "out_file", "censoring",
            "confounds_file">>,
          <<"remove_dummy_scans", "fmriprep_confounds_file_dropped_TR", "censoring",
            "fmriprep_confounds_file">>,
          <<"remove_dummy_scans", "dummy_scans", "qc_report_wf",
            "inputnode_dummy_scans">>}
    ELSE {<<"downcast_data", "bold_file", "censoring", "in_file">>,
          <<"inputnode", "dummy_scans", "qc_report_wf", "inputnode_dummy_scans">>,
          <<"inputnode", "fmriprep_confounds_tsv", "censoring",
            "fmriprep_confounds_file">>,
          <<"consolidate_confounds_node", "out_file", "censoring",
            "confounds_file">>}

\* "Remove TR first": the censoring stage is fed by the trimmer or directly
DummyScanEdges(c) ==
    IF Truthy(EffectiveDummyScans(c))
    THEN {<<"inputnode", "dummy_scans", "remove_dummy_scans", "dummy_scans">>,
          <<"inputnode", "fmriprep_confounds_tsv", "remove_dummy_scans",
            "fmriprep_confounds_file">>,
          <<"downcast_data", "bold_file", "remove_dummy_scans", "bold_file">>,
          <<"consolidate_confounds_node", "out_file", "remove_dummy_scans",
            "confounds_file">>,
          <<"remove_dummy_scans", "bold_file_dropped_TR", "censoring", "in_file">>,
          <<"remove_dummy_scans", "confounds_file_dropped_TR", "censoring",
            "confounds_file">>,
          <<"remove_dummy_scans", "fmriprep_confounds_file_dropped_TR", "censoring",
            "fmriprep_confounds_file">>,
          <<"remove_dummy_scans", "dummy_scans", "qc_report_wf",
            "inputnode_dummy_scans">>}
    ELSE {<<"downcast_data", "bold_file", "censoring", "in_file">>,
          <<"inputnode", "dummy_scans", "qc_report_wf", "inputnode_dummy_scans">>,
          <<"inputnode", "fmriprep_confounds_tsv", "censoring",
            "fmriprep_confounds_file">>,
          <<"consolidate_confounds_node", "out_file", "censoring",
            "confounds_file">>}

CensorEdges ==
    {<<"determine_head_radius", "head_radius", "censoring", "head_radius">>,
     <<"censoring", "confounds_censored", "plot_design_matrix_node",
       "design_matrix">>}

\* the despike stage fed the signal of every frame
DespikeEdges_RawSignal(c) ==
    IF c.despike
    THEN {<<"downcast_data", "bold_file", "despike3d", "in_file">>,
          <<"despike3d", "out_file", "regression_wf", "in_file">>}
    ELSE {<<"censoring", "bold_censored", "regression_wf", "in_file">>}

\* the despike connections made under a test that also reads another gate
DespikeEdges_OtherGate(c) ==
    IF c.despike /\ c.bandpass_filter
    THEN {<<"censoring", "bold_censored", "despike3d", "in_file">>,
          <<"despike3d", "out_file", "regression_wf", "in_file">>}
    ELSE {<<"censoring", "bold_censored", "regression_wf", "in_file">>}

DespikeEdges(c) ==
    IF c.despike
    THEN {<<"censoring", "bold_censored", "despike3d", "in_file">>,
          <<"despike3d", "out_file", "regression_wf", "in_file">>}
    ELSE {<<"censoring", "bold_censored", "regression_wf", "in_file">>}

\* the regression fed the consolidated confounds of every frame
RegressionEdges_UncensoredConfounds ==
    {<<"downcast_data", "bold_mask", "regression_wf", "mask">>,
     <<"consolidate_confounds_node", "out_file", "regression_wf", "confounds">>}

RegressionEdges ==
    {<<"downcast_data", "bold_mask", "regression_wf", "mask">>,
     <<"censoring", "confounds_censored", "regression_wf", "confounds">>}

\* the interpolator fed the censored signal instead of the residual
InterpolationEdges_FromCensoring ==
    {<<"downcast_data", "bold_file", "interpolation_wf", "bold_file">>,
     <<"downcast_data", "bold_mask", "interpolation_wf", "mask_file">>,
     <<"censoring", "tmask", "interpolation_wf", "tmask">>,
     <<"censoring", "bold_censored", "interpolation_wf", "in_file">>}

InterpolationEdges ==
    {<<"downcast_data", "bold_file", "interpolation_wf", "bold_file">>,
     <<"downcast_data", "bold_mask", "interpolation_wf", "mask_file">>,
     <<"censoring", "tmask", "interpolation_wf", "tmask">>,
     <<"regression_wf", "res_file", "interpolation_wf", "in_file">>}

\* the filter fed the censored residual, the interpolator bypassed
FilteringEdges_SkipInterpolation ==
    {<<"downcast_data", "bold_mask", "filtering_wf", "mask">>,
     <<"regression_wf", "res_file", "filtering_wf", "in_file">>}

\* the filter fed by the despike stage, a stage that may not exist
FilteringEdges_FromDespike ==
    {<<"downcast_data", "bold_mask", "filtering_wf", "mask">>,
     <<"despike3d", "out_file", "filtering_wf", "in_file">>}

FilteringEdges ==
    {<<"downcast_data", "bold_mask", "filtering_wf", "mask">>,
     <<"interpolation_wf", "bold_interpolated", "filtering_wf", "in_file">>}

SmoothingEdges ==
    {<<"filtering_wf", "filtered_file", "resd_smoothing_wf", "inputnode_bold_file">>}

FconEdges ==
    {<<"downcast_data", "bold_file", "fcons_ts_wf", "inputnode_bold_file">>,
     <<"downcast_data", "bold_mask", "fcons_ts_wf", "inputnode_bold_mask">>,
     <<"downcast_data", "ref_file", "fcons_ts_wf", "inputnode_ref_file">>,
     <<"inputnode", "template_to_t1w", "fcons_ts_wf", "inputnode_template_to_t1w">>,
     <<"inputnode", "t1w_to_native", "fcons_ts_wf", "inputnode_t1w_to_native">>,
     <<"filtering_wf", "filtered_file", "fcons_ts_wf", "inputnode_clean_bold">>}

RehoEdges ==
    {<<"downcast_data", "bold_mask", "nifti_reho_wf", "inputnode_bold_mask">>,
     <<"filtering_wf", "filtered_file", "nifti_reho_wf", "inputnode_clean_bold">>}

AlffEdges(c) ==
    IF c.bandpass_filter
    THEN {<<"downcast_data", "bold_mask", "compute_alff_wf", "inputnode_bold_mask">>,
          <<"filtering_wf", "filtered_file", "compute_alff_wf",
            "inputnode_clean_bold">>}
    ELSE {}

\* the QC workflow not given the filtered residual
QcReportEdges_NoCleanedFile ==
    {<<"censoring", "tmask", "qc_report_wf", "inputnode_tmask">>,
     <<"censoring", "filtered_motion", "qc_report_wf", "inputnode_filtered_motion">>}

\* the QC workflow given the brain mask as its temporal mask
QcReportEdges_BrainMask ==
    {<<"filtering_wf", "filtered_file", "qc_report_wf", "inputnode_cleaned_file">>,
     <<"inputnode", "bold_mask", "qc_report_wf", "inputnode_tmask">>,
     <<"censoring", "filtered_motion", "qc_report_wf", "inputnode_filtered_motion">>}

QcReportEdges ==
    {<<"filtering_wf", "filtered_file", "qc_report_wf", "inputnode_cleaned_file">>,
     <<"censoring", "tmask", "qc_report_wf", "inputnode_tmask">>,
     <<"censoring", "filtered_motion", "qc_report_wf", "inputnode_filtered_motion">>}

WriteDerivativeEdges(c) ==
    {<<"consolidate_confounds_node", "out_file", "write_derivative_wf",
       "inputnode_confounds_file">>,
     <<"filtering_wf", "filtered_file", "write_derivative_wf",
       "inputnode_processed_bold">>,
     <<"qc_report_wf", "outputnode_qc_file", "write_derivative_wf",
       "inputnode_qc_file">>,
     <<"resd_smoothing_wf", "outputnode_smoothed_bold", "write_derivative_wf",
       "inputnode_smoothed_bold">>,
     <<"censoring", "filtered_motion", "write_derivative_wf",
       "inputnode_filtered_motion">>,
     <<"censoring", "filtered_motion_metadata", "write_derivative_wf",
       "inputnode_filtered_motion_metadata">>,
     <<"censoring", "tmask", "write_derivative_wf", "inputnode_tmask">>,
     <<"censoring", "tmask_metadata", "write_derivative_wf",
       "inputnode_tmask_metadata">>,
     <<"nifti_reho_wf", "outputnode_reho_out", "write_derivative_wf",
       "inputnode_reho_out">>,
     <<"fcons_ts_wf", "outputnode_atlas_names", "write_derivative_wf",
       "inputnode_atlas_names">>,
     <<"fcons_ts_wf", "outputnode_correlations", "write_derivative_wf",
       "inputnode_correlations">>,
     <<"fcons_ts_wf", "outputnode_timeseries", "write_derivative_wf",
       "inputnode_timeseries">>,
     <<"fcons_ts_wf", "outputnode_coverage", "write_derivative_wf",
       "inputnode_coverage_files">>}
    \cup (IF c.bandpass_filter
          THEN {<<"compute_alff_wf", "outputnode_alff_out", "write_derivative_wf",
                  "inputnode_alff_out">>,
                <<"compute_alff_wf", "outputnode_smoothed_alff",
                  "write_derivative_wf", "inputnode_smoothed_alff">>}
          ELSE {})

\* the connectivity figure sink fed from the downcast stage
SinkEdges_ConnectivityFromInput(c) ==
    {<<"plot_design_matrix_node", "design_matrix_figure", "ds_design_matrix_plot",
       "in_file">>,
     <<"downcast_data", "bold_file", "ds_report_connectivity", "in_file">>,
     <<"nifti_reho_wf", "outputnode_rehoplot", "ds_report_rehoplot", "in_file">>}
    \cup (IF c.bandpass_filter
          THEN {<<"compute_alff_wf", "outputnode_alffplot", "ds_report_alffplot",
                  "in_file">>}
          ELSE {})

SinkEdges(c) ==
    {<<"plot_design_matrix_node", "design_matrix_figure", "ds_design_matrix_plot",
       "in_file">>,
     <<"fcons_ts_wf", "outputnode_connectplot", "ds_report_connectivity", "in_file">>,
     <<"nifti_reho_wf", "outputnode_rehoplot", "ds_report_rehoplot", "in_file">>}
    \cup (IF c.bandpass_filter
          THEN {<<"compute_alff_wf", "outputnode_alffplot", "ds_report_alffplot",
                  "in_file">>}
          ELSE {})

ExecSummaryEdges(c) ==
    IF c.dcan_qc
    THEN {<<"inputnode", "bold_file", "executive_summary_wf", "inputnode_bold_file">>,
          <<"inputnode", "ref_file", "executive_summary_wf",
            "inputnode_boldref_file">>}
    ELSE {}

\* every connection of the workflow
WorkflowEdges(c) ==
    DowncastEdges \cup HeadRadiusEdges \cup ConsolidateEdges \cup QcInputEdges
    \cup DummyScanEdges(c) \cup CensorEdges \cup DespikeEdges(c)
    \cup RegressionEdges \cup InterpolationEdges \cup FilteringEdges
    \cup SmoothingEdges \cup FconEdges \cup RehoEdges \cup AlffEdges(c)
    \cup QcReportEdges \cup WriteDerivativeEdges(c) \cup SinkEdges(c)
    \cup ExecSummaryEdges(c)

\* nodes that write a file into the output directory
OutputSinks ==
    {"ds_design_matrix_plot", "ds_report_connectivity", "ds_report_rehoplot",
     "ds_report_alffplot", "executive_summary_wf", "write_derivative_wf"}

---------------------------------------------------------------------------
(* The workflow engine: a node runs once all the nodes it is connected     *)
(* from have finished; a node that fails leaves its dependents unrun.      *)

AllNodes ==
    BaseNodes \cup {"compute_alff_wf", "ds_report_alffplot", "remove_dummy_scans",
                    "despike3d", "executive_summary_wf"}

NoOut == [none |-> TRUE]

Upstream(n) == {e[1] : e \in {d \in edges : d[3] = n}}

Ready(n) ==
    /\ phase = "running"
    /\ n \in nodes
    /\ status[n] = "pending"
    /\ \A u \in Upstream(n) : status[u] = "done"

HasIn(n, f) == \E e \in edges : e[3] = n /\ e[4] = f

\* the value connected to input field f of node n
In(n, f) ==
    LET e == CHOOSE d \in edges : d[3] = n /\ d[4] = f
    IN  prod[e[1]][e[2]]

\* the sink writes under a path named after the run's own BOLD file
SinkPath_NoSource(n) == <<"bold", n>>

\* the path sink n writes: named after the source BOLD file of the run
SinkPath(n) == <<run, n>>

\* node n ends with result r; a sink that succeeds writes its file
Complete(n, r) ==
    /\ status' = [status EXCEPT ![n] = IF r.ok THEN "done" ELSE "failed"]
    /\ prod' = [prod EXCEPT ![n] = IF r.ok THEN r.out ELSE NoOut]
    /\ errors' = IF r.ok THEN errors ELSE errors \cup {[node |-> n, err |-> r.err]}
    /\ files' = IF r.ok /\ n \in OutputSinks THEN files \cup {n} ELSE files
    /\ disk' = IF r.ok /\ n \in OutputSinks
               THEN {f \in disk : f.path # SinkPath(n)}
                        \cup {[path |-> SinkPath(n), content |-> r.out]}
               ELSE disk
    /\ UNCHANGED <<cfg, inp, phase, nodes, edges, run, other, bold_fname,
                   mem_gbx>>

\* node n runs: it fails when one of its mandatory inputs is not connected,
\* and ends with result r otherwise
Run(n, mandatory, r) ==
    /\ Ready(n)
    /\ \E res \in {IF \A f \in mandatory : HasIn(n, f) THEN r
                    ELSE Fail(Err("MandatoryInputError"))} :
          Complete(n, res)

\* fields of the input node: set at construction or by the calling workflow
InputNodeFields(c, i) ==
    [bold_file |-> i.bold,
     ref_file |-> "boldref",
     bold_mask |-> "boldmask",
     custom_confounds_file |-> i.custom,
     template_to_t1w |-> "template_to_t1w",
     t1w |-> "t1w",
     t1seg |-> "t1seg",
     t1w_mask |-> "t1w_mask",
     fmriprep_confounds_tsv |-> i.table,
     t1w_to_native |-> "t1w_to_native",
     dummy_scans |-> EffectiveDummyScans(c)]

\* _create_mem_gb: the memory estimates of a run, in 1/100000 GB, from the
\* size of the BOLD file in 1/1000 GB and its number of frames
CreateMemGb(bold_size_gb, bold_tlen) ==
    LET timeseries ==
            bold_size_gb * ((IF bold_tlen > 100 THEN bold_tlen ELSE 100) + 400)
    IN  IF timeseries < 400000
        THEN [derivative |-> bold_size_gb * 100, resampled |-> 200000,
              timeseries |-> 600000]
        ELSE IF timeseries > 800000
        THEN [derivative |-> bold_size_gb * 100, resampled |-> 300000,
              timeseries |-> 800000]
        ELSE [derivative |-> bold_size_gb * 100,
              resampled |-> bold_size_gb * 400,
              timeseries |-> timeseries]

\* init_boldpostprocess_wf: builds the graph of the run
Build ==
    /\ phase = "new"
    /\ phase' = "running"
    /\ nodes' = BaseNodes \cup GatedNodes(cfg)
    /\ edges' = WorkflowEdges(cfg)
    /\ status' = [n \in AllNodes |->
                    IF n = "inputnode" THEN "done"
                    ELSE IF n \in BaseNodes \cup GatedNodes(cfg) THEN "pending"
                    ELSE "absent"]
    /\ prod' = [n \in AllNodes |->
                    IF n = "inputnode" THEN InputNodeFields(cfg, inp) ELSE NoOut]
    /\ mem_gbx' = CreateMemGb(bold_fname.size, Len(inp.bold))
    /\ UNCHANGED <<cfg, inp, files, errors, run, other, disk, bold_fname>>

RunDowncast ==
    Run("downcast_data", {"bold_file", "ref_file", "bold_mask", "t1w", "t1seg", "t1w_mask"},
                Ok([f \in {"bold_file", "ref_file", "bold_mask", "t1w", "t1seg",
                           "t1w_mask"} |-> In("downcast_data", f)]))

RunHeadRadius ==
    Run("determine_head_radius", {"mask_file"}, Ok([head_radius |-> cfg.head_radius]))

RunConsolidate ==
    Run("consolidate_confounds_node", {"img_file", "custom_confounds_file"},
                ConsolidateConfounds(inp.table,
                    In("consolidate_confounds_node", "custom_confounds_file"),
                    cfg.params))

RunRemoveTR ==
    Run("remove_dummy_scans", {"bold_file", "confounds_file", "fmriprep_confounds_file", "dummy_scans"},
                RemoveTR(In("remove_dummy_scans", "bold_file"),
                         In("remove_dummy_scans", "confounds_file"),
                         In("remove_dummy_scans", "fmriprep_confounds_file"),
                         In("remove_dummy_scans", "dummy_scans")))

RunCensor ==
    Run("censoring", {"in_file", "confounds_file", "fmriprep_confounds_file", "head_radius"},
                CensorScrub(In("censoring", "in_file"),
                            In("censoring", "confounds_file"),
                            In("censoring", "fmriprep_confounds_file"),
                            In("censoring", "head_radius"),
                            CensorScrubParams(cfg)))

RunDespike ==
    Run("despike3d", {"in_file"}, DespikePatch(In("despike3d", "in_file")))

RunRegress ==
    Run("regression_wf", {"in_file", "confounds", "mask"},
                Regress(In("regression_wf", "in_file"),
                        In("regression_wf", "confounds"),
                        RegressParams(cfg)))

RunInterpolate ==
    Run("interpolation_wf", {"in_file", "tmask", "bold_file", "mask_file"},
                Interpolate(In("interpolation_wf", "in_file"),
                            In("interpolation_wf", "tmask"),
                            In("interpolation_wf", "bold_file"),
                            InterpolateParams(cfg)))

RunFilter ==
    Run("filtering_wf", {"in_file", "mask"},
                FilteringData(In("filtering_wf", "in_file"),
                              FilteringDataParams(cfg)))

RunPlotDesign ==
    Run("plot_design_matrix_node", {"design_matrix"},
                Ok([design_matrix_figure |->
                        In("plot_design_matrix_node", "design_matrix")]))

RunSmoothing ==
    Run("resd_smoothing_wf", {"inputnode_bold_file"},
                Ok([outputnode_smoothed_bold |->
                        In("resd_smoothing_wf", "inputnode_bold_file")]))

RunFcon ==
    Run("fcons_ts_wf", {"inputnode_clean_bold", "inputnode_bold_file", "inputnode_bold_mask"},
                Ok([outputnode_atlas_names |-> "atlas_names",
                    outputnode_correlations |-> "correlations",
                    outputnode_timeseries |->
                        In("fcons_ts_wf", "inputnode_clean_bold"),
                    outputnode_coverage |-> FconParams(cfg).min_coverage,
                    outputnode_connectplot |-> "connectplot"]))

RunReho ==
    Run("nifti_reho_wf", {"inputnode_clean_bold", "inputnode_bold_mask"},
                Ok([outputnode_reho_out |->
                        In("nifti_reho_wf", "inputnode_clean_bold"),
                    outputnode_rehoplot |-> "rehoplot"]))

RunAlff ==
    Run("compute_alff_wf", {"inputnode_clean_bold", "inputnode_bold_mask"},
                Ok([outputnode_alff_out |->
                        In("compute_alff_wf", "inputnode_clean_bold"),
                    outputnode_smoothed_alff |-> "smoothed_alff",
                    outputnode_alffplot |-> "alffplot"]))

RunQcReport ==
    Run("qc_report_wf", {"inputnode_tmask", "inputnode_dummy_scans", "inputnode_cleaned_file", "inputnode_preprocessed_bold_file"},
                Ok([outputnode_qc_file |->
                        [tmask |-> In("qc_report_wf", "inputnode_tmask"),
                         dummy_scans |-> In("qc_report_wf", "inputnode_dummy_scans"),
                         cleaned_file |->
                            In("qc_report_wf", "inputnode_cleaned_file")]]))

RunWriteDerivatives ==
    Run("write_derivative_wf", {"inputnode_processed_bold", "inputnode_qc_file", "inputnode_tmask", "inputnode_confounds_file"},
                Ok([written |->
                      {e[4] : e \in {d \in edges : d[3] = "write_derivative_wf"}}]))

\* the figure sinks of the workflow
RunSink ==
    \E n \in {"ds_design_matrix_plot", "ds_report_connectivity",
              "ds_report_rehoplot", "ds_report_alffplot"} :
        Run(n, {"in_file"}, Ok([out_file |-> In(n, "in_file")]))

RunExecSummary ==
    Run("executive_summary_wf", {"inputnode_bold_file", "inputnode_boldref_file"},
                Ok([summary |-> In("executive_summary_wf", "inputnode_boldref_file")]))

\* the engine returns: no node is left to run
Finish ==
    /\ phase = "running"
    /\ \A n \in nodes : ~Ready(n)
    /\ phase' = IF \E n \in nodes : status[n] = "failed" THEN "aborted"
                ELSE "completed"
    /\ UNCHANGED <<cfg, inp, nodes, edges, status, prod, files, errors,
                   run, other, disk, bold_fname, mem_gbx>>

\* no second run
NoRun == [none |-> TRUE]

\* the workflow of the run being stepped
ThisRun ==
    [cfg |-> cfg, inp |-> inp, phase |-> phase, nodes |-> nodes, edges |-> edges,
     status |-> status, prod |-> prod, files |-> files, errors |-> errors,
     run |-> run, mem_gbx |-> mem_gbx]

\* the worker turns to the other run: the stages of two runs interleave
Switch ==
    /\ other # NoRun
    /\ other' = ThisRun
    /\ cfg' = other.cfg
    /\ inp' = other.inp
    /\ phase' = other.phase
    /\ nodes' = other.nodes
    /\ edges' = other.edges
    /\ status' = other.status
    /\ prod' = other.prod
    /\ files' = other.files
    /\ errors' = other.errors
    /\ run' = other.run
    /\ mem_gbx' = other.mem_gbx
    /\ UNCHANGED <<disk, bold_fname>>

---------------------------------------------------------------------------
(* Configurations and inputs of a run *)

Fixed(n) == [auto |-> FALSE, n |-> n]

Auto == [auto |-> TRUE, n |-> 0]

DefaultCfg ==
    [TR |-> 20, lower_bpf |-> 1, upper_bpf |-> 8, bpf_order |-> 2,
     motion_filter_type |-> "none", motion_filter_order |-> 4,
     bandpass_filter |-> TRUE, band_stop_min |-> 12, band_stop_max |-> 20,
     head_radius |-> 50, params |-> "27P", dummytime |-> 0,
     dummy_scans |-> Fixed(0), fd_thresh |-> 2, despike |-> FALSE,
     dcan_qc |-> TRUE, min_coverage |-> 50]

DummyChoices == {Fixed(0), Fixed(1), Auto}

\* c with the three optional gates set
Gated(c, d, ds, bp) ==
    [c EXCEPT !.dummy_scans = d, !.despike = ds, !.bandpass_filter = bp]

Frames == 1..MaxFrames

\* the motion/confound table of the run, one row per frame
Table(trans, rot, nss, x) ==
    [i \in Frames |-> [trans |-> trans[i], rot |-> rot[i], nss |-> nss[i],
                       x |-> x[i]]]

Still == [i \in Frames |-> 0]

NoFlags == [i \in Frames |-> FALSE]

\* a rotation that steps at frame 3
RotStep == [i \in Frames |-> IF i >= 3 THEN 1 ELSE 0]

\* a translation that jumps at frame 3
TransStep == [i \in Frames |-> IF i >= 3 THEN 2 ELSE 0]

\* a translation that moves at every frame from frame 3 on
TransShake == [i \in Frames |-> IF i >= 3 THEN (i % 2) * 2 ELSE 0]

\* sample values of the BOLD signal
Samples == 0..2

\* non-steady-state flags on at most two frames
FlagChoices ==
    {ns \in [Frames -> BOOLEAN] : Cardinality({i \in Frames : ns[i]}) <= 2}

Ramp == [i \in Frames |-> i % 2]

Wave == [i \in Frames |-> (i * i) % 3]

CustomColumn == [present |-> TRUE, name |-> "c1",
                 col |-> [i \in Frames |-> IF i = 2 THEN 1 ELSE 0]]

\* inputs that vary the motion trace, the non-steady-state flags and the threshold
CensorFamily ==
    {[cfg |-> [Gated(DefaultCfg, d, FALSE, TRUE) EXCEPT !.fd_thresh = th],
      inp |-> [bold |-> Wave, table |-> Table(tr, ro, ns, Ramp),
               custom |-> NoCustom]] :
        d \in DummyChoices, th \in {1, 2},
        tr \in [Frames -> 0..1], ro \in {Still, RotStep}, ns \in FlagChoices}

\* inputs that vary the signal and the regressors
RegressFamily ==
    {[cfg |-> Gated(DefaultCfg, d, ds, TRUE),
      inp |-> [bold |-> y, table |-> Table(tr, Still, NoFlags, Ramp),
               custom |-> cu]] :
        d \in {Fixed(0), Fixed(1)}, ds \in BOOLEAN, y \in [Frames -> Samples],
        tr \in {Still, TransStep, TransShake}, cu \in {NoCustom, CustomColumn}}

\* inputs that vary the sampling interval and the filter settings
FilterFamily ==
    {[cfg |-> [Gated(DefaultCfg, d, ds, bp) EXCEPT
                  !.TR = tr, !.upper_bpf = up, !.lower_bpf = lo,
                  !.motion_filter_type = mf, !.band_stop_min = bs[1],
                  !.band_stop_max = bs[2]],
      inp |-> [bold |-> Wave, table |-> Table(TransStep, Still, NoFlags, Ramp),
               custom |-> NoCustom]] :
        d \in DummyChoices, ds \in BOOLEAN, bp \in BOOLEAN,
        tr \in {8, 20}, up \in {8, 25, 30, 62, 63}, lo \in {1, 30},
        mf \in {"none", "notch", "lp"},
        bs \in {<<12, 20>>, <<20, 25>>, <<30, 40>>}}

\* custom confound tables the consolidator rejects
BadCustoms ==
    {[present |-> TRUE, name |-> "x", col |-> Still],
     [present |-> TRUE, name |-> "c1", col |-> <<0, 1>>]}

RejectFamily ==
    {[cfg |-> Gated(DefaultCfg, d, ds, bp),
      inp |-> [bold |-> Wave, table |-> Table(Still, Still, NoFlags, Ramp),
               custom |-> cu]] :
        d \in DummyChoices, ds \in BOOLEAN, bp \in BOOLEAN, cu \in BadCustoms}

\* the filter settings again, for runs of the whole workflow
WorkflowFilterRuns ==
    {r \in FilterFamily :
        r.cfg.dummy_scans = Fixed(0) /\ ~r.cfg.despike}

\* a signal one frame shorter than its motion/confound table
ShortFamily ==
    {[cfg |-> Gated(DefaultCfg, d, ds, TRUE),
      inp |-> [bold |-> SubSeq(Wave, 1, MaxFrames - 1),
               table |-> Table(tr, Still, NoFlags, Ramp),
               custom |-> NoCustom]] :
        d \in DummyChoices, ds \in BOOLEAN, tr \in {Still, TransStep}}

CoreRuns ==
    CensorFamily \cup RegressFamily \cup FilterFamily \cup RejectFamily
        \cup ShortFamily

\* the runs of the whole workflow: every gate, a few inputs
WorkflowRuns ==
    {[cfg |-> [Gated(DefaultCfg, d, ds, bp) EXCEPT
                  !.dcan_qc = qc, !.upper_bpf = up],
      inp |-> [bold |-> Wave, table |-> Table(tr, Still, ns, Ramp),
               custom |-> NoCustom]] :
        d \in DummyChoices, ds \in BOOLEAN, bp \in BOOLEAN, qc \in BOOLEAN,
        up \in {8, 30},
        tr \in {Still, TransStep, TransShake},
        ns \in {NoFlags, [i \in Frames |-> i = 1]}}

\* the workflow of a run before it is built
NewRun(r, name) ==
    [cfg |-> r.cfg, inp |-> r.inp, phase |-> "new", nodes |-> {}, edges |-> {},
     status |-> [n \in AllNodes |-> "absent"],
     prod |-> [n \in AllNodes |-> NoOut], files |-> {}, errors |-> {},
     run |-> name, mem_gbx |-> NoOut]

\* the workflow being stepped is that of run r, not yet built
InitThis(r) ==
    /\ cfg = r.cfg
    /\ inp = r.inp
    /\ phase = "new"
    /\ nodes = {}
    /\ edges = {}
    /\ status = [n \in AllNodes |-> "absent"]
    /\ prod = [n \in AllNodes |-> NoOut]
    /\ files = {}
    /\ errors = {}
    /\ run = "run-1"
    /\ disk = {}
    /\ mem_gbx = NoOut

\* the BOLD file of the runs of the workflow: 0.1 GB
DefaultFile == [size |-> 100]

InitRun(r) == InitThis(r) /\ other = NoRun /\ bold_fname = DefaultFile

Init == \E r \in WorkflowRuns \cup WorkflowFilterRuns : InitRun(r)

InitCore == \E r \in CoreRuns : InitRun(r)

\* the stages of the signal-conditioning pipeline
NextCore ==
    \/ Build
    \/ RunDowncast
    \/ RunHeadRadius
    \/ RunConsolidate
    \/ RunRemoveTR
    \/ RunCensor
    \/ RunDespike
    \/ RunRegress
    \/ RunInterpolate
    \/ RunFilter

Next ==
    \/ NextCore
    \/ RunPlotDesign
    \/ RunSmoothing
    \/ RunFcon
    \/ RunReho
    \/ RunAlff
    \/ RunQcReport
    \/ RunWriteDerivatives
    \/ RunSink
    \/ RunExecSummary
    \/ Finish

\* a run of the whole workflow
Spec == Init /\ [][Next]_vars

\* the signal-conditioning stages alone, over the input families
SpecCore == InitCore /\ [][NextCore]_vars

\* the runs of the whole workflow with the default cutoffs, the executive
\* summary and a moving subject
LiveRuns ==
    {w \in WorkflowRuns :
        w.cfg.upper_bpf = 8 /\ w.cfg.dcan_qc /\ w.inp.table[3].trans # 0}

InitLive == \E r \in LiveRuns : InitRun(r)

\* runs with every optional stage that vary dummy_scans, dummytime (1/10 s)
\* and the sampling interval
DummyRuns ==
    {[cfg |-> [Gated(DefaultCfg, d, TRUE, TRUE) EXCEPT
                  !.dummytime = dt, !.TR = tr],
      inp |-> [bold |-> Wave, table |-> Table(TransStep, Still, ns, Ramp),
               custom |-> NoCustom]] :
        d \in {Fixed(0), Fixed(2), Fixed(-1), Auto}, dt \in {0, 8, 20, 30},
        tr \in {8, 20}, ns \in {NoFlags, [i \in Frames |-> i = 1]}}

InitDummy == \E r \in DummyRuns : InitRun(r)

\* the whole workflow over the dummy-volume settings
SpecDummy == InitDummy /\ [][Next]_vars

\* sizes of the BOLD file, in 1/1000 GB, and numbers of frames
FileSizes == {100, 400, 700, 790, 800, 1000, 1200, 1500, 1600, 2000}

FrameCounts == {1, 50, 100, 101, 110, 150, 200, 300, 400}

\* runs of the default configuration on files of every size and length
MemRuns ==
    {[cfg |-> DefaultCfg,
      inp |-> [bold |-> [i \in 1..t |-> 0],
               table |-> [i \in 1..t |-> [trans |-> 0, rot |-> 0, nss |-> FALSE,
                                          x |-> 0]],
               custom |-> NoCustom]] : t \in FrameCounts}

InitMem ==
    \E r \in MemRuns, size \in FileSizes :
        InitThis(r) /\ other = NoRun /\ bold_fname = [size |-> size]

\* the construction of the workflow alone
SpecMem == InitMem /\ [][Build]_vars

\* a run with every optional stage, beside a run with none of a subject that
\* moves differently or beside a run whose regression fails
PairRuns ==
    {w \in WorkflowRuns :
        /\ w.cfg.upper_bpf = 8
        /\ w.inp.table[1].nss = FALSE
        /\ w.inp.table[3].trans # 0
        /\ \/ /\ w.cfg.dcan_qc /\ w.cfg.despike /\ w.cfg.bandpass_filter
              /\ w.cfg.dummy_scans \in {Auto, Fixed(1)}
           \/ /\ ~w.cfg.dcan_qc /\ ~w.cfg.despike /\ ~w.cfg.bandpass_filter
              /\ w.cfg.dummy_scans = Fixed(0)}

InitPair ==
    \E r1 \in PairRuns, r2 \in PairRuns :
        /\ r1.cfg.dummy_scans = Auto /\ r1.inp.table[4].trans # 0
        /\ r2.cfg.dummy_scans # Auto /\ r2.inp.table[4].trans = 0
        /\ InitThis(r1)
        /\ bold_fname = DefaultFile
        /\ other = NewRun(r2, "run-2")

NextPair == Next \/ Switch

\* two runs of one invocation, their stages interleaved
SpecPair == InitPair /\ [][NextPair]_vars

\* a run of the whole workflow under an engine that keeps running ready nodes
\* until none is left
SpecLive == InitLive /\ [][Next]_vars /\ WF_vars(Next)

---------------------------------------------------------------------------
(* Properties *)

Ran(n) == status[n] \in {"done", "failed"}

\* position of a stage in the order censoring, regression, interpolation,
\* band-pass filtering; 0 for every other node
StageRank(n) ==
    CASE n = "censoring" -> 1
      [] n = "regression_wf" -> 2
      [] n = "interpolation_wf" -> 3
      [] n = "filtering_wf" -> 4
      [] OTHER -> 0

\* C1: in every run, whatever the gates, regression has run only after
\* censoring finished, interpolation only after regression finished, band-pass
\* filtering only after interpolation finished, and no connection hands the
\* output of a later stage of this order to an earlier one.
C1_StageOrder ==
    /\ Ran("regression_wf") => status["censoring"] = "done"
    /\ Ran("interpolation_wf") => status["regression_wf"] = "done"
    /\ Ran("filtering_wf") => status["interpolation_wf"] = "done"
    /\ \A e \in edges :
          (StageRank(e[1]) > 0 /\ StageRank(e[3]) > 0)
              => StageRank(e[1]) < StageRank(e[3])

\* all four stages ran with every optional gate open
C1_Witness ==
    /\ status["filtering_wf"] = "done"
    /\ status["despike3d"] = "done"
    /\ status["remove_dummy_scans"] = "done"
    /\ cfg.bandpass_filter

\* frames the trimmer takes off the front of the run
DroppedFrames ==
    IF "remove_dummy_scans" \in nodes
    THEN Min2(Len(inp.bold),
              IF EffectiveDummyScans(cfg).auto THEN LeadingFlagged(inp.table)
              ELSE EffectiveDummyScans(cfg).n)
    ELSE 0

\* C2 as stated: the residual after the Interpolator and after the Band-pass
\* Filter has as many frames as the input signal.
C2_InputFrameCount ==
    /\ status["interpolation_wf"] = "done"
          => Len(prod["interpolation_wf"].bold_interpolated) = Len(inp.bold)
    /\ status["filtering_wf"] = "done"
          => Len(prod["filtering_wf"].filtered_file) = Len(inp.bold)

\* C2 amended: the residual after the Interpolator and after the Band-pass
\* Filter has as many frames as the input signal less the leading frames the
\* dummy-volume trimmer removed, whatever the number of censored frames.
C2_TrimmedFrameCount ==
    /\ status["interpolation_wf"] = "done"
          => Len(prod["interpolation_wf"].bold_interpolated)
                = Len(inp.bold) - DroppedFrames
    /\ status["filtering_wf"] = "done"
          => Len(prod["filtering_wf"].filtered_file)
                = Len(inp.bold) - DroppedFrames

\* a filtered residual of a run that lost a dummy frame and a censored frame
C2_Witness ==
    /\ status["filtering_wf"] = "done"
    /\ cfg.bandpass_filter
    /\ DroppedFrames = 1
    /\ prod["censoring"].retained = Len(inp.bold) - 2

\* C3: at every frame the mask retains, the interpolated residual equals the
\* regression residual of that retained frame.
C3_InterpolatorIdentity ==
    status["interpolation_wf"] = "done" =>
        /\ status["regression_wf"] = "done"
        /\ status["censoring"] = "done"
        /\ LET tmask == prod["censoring"].tmask
               res   == prod["regression_wf"].res_file
               full  == prod["interpolation_wf"].bold_interpolated
           IN  /\ Len(full) = Len(tmask)
               /\ \A i \in 1..Len(tmask) :
                     tmask[i] => full[i] = res[RankKept(tmask, i)]

\* an interpolated residual with a censored frame between retained frames
\* that carry different nonzero residuals
C3_Witness ==
    /\ status["interpolation_wf"] = "done"
    /\ \E i \in 2..(Len(prod["censoring"].tmask) - 1) :
          /\ ~prod["censoring"].tmask[i]
          /\ prod["censoring"].tmask[i - 1]
          /\ prod["censoring"].tmask[i + 1]
          /\ prod["interpolation_wf"].bold_interpolated[i - 1] # 0
          /\ prod["interpolation_wf"].bold_interpolated[i - 1]
                # prod["interpolation_wf"].bold_interpolated[i + 1]

\* the motion/confound table of the frames that reach the censoring stage
CensoredTable == DropFirst(inp.table, DroppedFrames)

\* C4: the censoring stage is given the flags of exactly the frames it censors
\* over; every frame flagged non-steady-state is censored whatever its
\* displacement, every frame at or above the motion threshold stays censored,
\* and when no frame reaches the threshold the censored frames are exactly the
\* flagged ones.
C4_MaskUnion ==
    status["censoring"] = "done" =>
        LET tmask == prod["censoring"].tmask
            fd    == prod["censoring"].filtered_motion
            table == CensoredTable
            n     == Len(tmask)
        IN  /\ In("censoring", "fmriprep_confounds_file") = table
            /\ n = Len(table)
            /\ \A i \in 1..n : table[i].nss => ~tmask[i]
            /\ \A i \in 1..n : fd[i] >= cfg.fd_thresh => ~tmask[i]
            /\ (\A i \in 1..n : fd[i] < cfg.fd_thresh)
                  => {i \in 1..n : ~tmask[i]} = {i \in 1..n : table[i].nss}

\* a mask that censors a flagged frame lying below the threshold, after the
\* first frame, next to a frame censored for motion
C4_Witness ==
    /\ status["censoring"] = "done"
    /\ \E i \in 2..Len(prod["censoring"].tmask) :
          /\ CensoredTable[i].nss
          /\ prod["censoring"].filtered_motion[i] < cfg.fd_thresh
          /\ ~prod["censoring"].tmask[i]
    /\ \E j \in 1..Len(prod["censoring"].tmask) :
          /\ ~CensoredTable[j].nss
          /\ ~prod["censoring"].tmask[j]

\* framewise displacement of frame i of the table, from its raw motion channels
RawDisplacement(table, i) ==
    IF i = 1 THEN 0
    ELSE Abs(table[i].trans - table[i - 1].trans)
         + (cfg.head_radius * Abs(table[i].rot - table[i - 1].rot)) \div 50

\* C5: with the motion filter off, the displacement of the first frame is zero
\* and that of every later frame is the scaled sum of the channel differences;
\* a frame that is not flagged is censored exactly when its displacement is at
\* or above the configured threshold; the first frame is censored only when
\* flagged; with no flags the false mask entries number the frames at or above
\* the threshold.
C5_MotionRule ==
    (status["censoring"] = "done" /\ cfg.motion_filter_type = "none") =>
        LET tmask == prod["censoring"].tmask
            fd    == prod["censoring"].filtered_motion
            table == CensoredTable
            n     == Len(tmask)
        IN  /\ Len(fd) = n
            /\ n = Len(table)
            /\ \A i \in 1..n : fd[i] = RawDisplacement(table, i)
            /\ \A i \in 1..n :
                  ~table[i].nss => (~tmask[i] <=> fd[i] >= cfg.fd_thresh)
            /\ n > 0 => (fd[1] = 0 /\ (~tmask[1] => table[1].nss))
            /\ (\A i \in 1..n : ~table[i].nss)
                  => Cardinality({i \in 1..n : ~tmask[i]})
                        = Cardinality({i \in 1..n : fd[i] >= cfg.fd_thresh})

\* a mask with a frame exactly at the threshold censored, a frame just below
\* it retained, and the first frame retained
C5_Witness ==
    /\ status["censoring"] = "done"
    /\ cfg.motion_filter_type = "none"
    /\ Len(prod["censoring"].tmask) = MaxFrames
    /\ prod["censoring"].tmask[1]
    /\ \A i \in 1..MaxFrames : ~CensoredTable[i].nss
    /\ \E i \in 2..MaxFrames :
          /\ prod["censoring"].filtered_motion[i] = cfg.fd_thresh
          /\ ~prod["censoring"].tmask[i]
    /\ \E i \in 2..MaxFrames :
          /\ prod["censoring"].filtered_motion[i] = cfg.fd_thresh - 1
          /\ prod["censoring"].filtered_motion[i] > 0
          /\ prod["censoring"].tmask[i]

\* regressor columns of the design the regression is given
RegressorColumns == IF inp.custom.present THEN 2 ELSE 1

\* C6: when the censoring stage retains no more frames than there are
\* regressor columns, the regression never ends with a residual: once run it
\* has failed with UnderdeterminedSystemError and left no output, and neither
\* the Interpolator nor the Band-pass Filter runs.
C6_Underdetermined ==
    (status["censoring"] = "done"
        /\ prod["censoring"].retained <= RegressorColumns) =>
        /\ status["regression_wf"] # "done"
        /\ status["regression_wf"] = "failed" =>
              /\ \E e \in errors :
                    /\ e.node = "regression_wf"
                    /\ e.err.type = "UnderdeterminedSystemError"
              /\ \A e \in errors :
                    e.node = "regression_wf"
                        => e.err.type = "UnderdeterminedSystemError"
              /\ prod["regression_wf"] = NoOut
        /\ status["interpolation_wf"] = "pending"
        /\ status["filtering_wf"] = "pending"

\* the regression failed on two retained frames against two regressor columns
C6_Witness ==
    /\ status["regression_wf"] = "failed"
    /\ status["censoring"] = "done"
    /\ prod["censoring"].retained = RegressorColumns
    /\ RegressorColumns = 2

\* the error names the Nyquist frequency 1/(2*TR) of the run
NamesNyquist(err) ==
    /\ err.nyquist_den > 0
    /\ err.nyquist_num * 2 * cfg.TR = 1000 * err.nyquist_den

\* node n failed with a ValidationError that names one of the cutoffs, a
\* cutoff at or above Nyquist, and the Nyquist frequency
FailedOnNyquist(n, cutoffs) ==
    /\ status[n] = "failed"
    /\ \E e \in errors :
          /\ e.node = n
          /\ e.err.type = "ValidationError"
          /\ e.err.cutoff \in cutoffs
          /\ AtOrAboveNyquist(e.err.cutoff, cfg.TR)
          /\ NamesNyquist(e.err)

\* the cutoffs the configured motion filter uses
MotionCutoffs ==
    IF cfg.motion_filter_type = "lp" THEN {cfg.band_stop_min}
    ELSE {cfg.band_stop_min, cfg.band_stop_max}

\* C7: a band-pass filter that is switched on, and a motion filter in a
\* filtering mode, fail with a ValidationError naming the cutoff and the Nyquist
\* frequency exactly when one of their cutoffs is at or above 1/(2*TR), and
\* succeed otherwise; after such a failure no later stage runs and the run
\* ends aborted.
C7_NyquistBoundary ==
    /\ (Ran("filtering_wf") /\ cfg.bandpass_filter) =>
          IF \E c \in {cfg.upper_bpf, cfg.lower_bpf} : AtOrAboveNyquist(c, cfg.TR)
          THEN FailedOnNyquist("filtering_wf", {cfg.upper_bpf, cfg.lower_bpf})
          ELSE status["filtering_wf"] = "done"
    /\ (Ran("censoring") /\ cfg.motion_filter_type # "none") =>
          IF \E c \in MotionCutoffs : AtOrAboveNyquist(c, cfg.TR)
          THEN FailedOnNyquist("censoring", MotionCutoffs)
          ELSE status["censoring"] = "done"
    /\ status["censoring"] = "failed" =>
          /\ status["regression_wf"] = "pending"
          /\ status["interpolation_wf"] = "pending"
          /\ status["filtering_wf"] = "pending"
    /\ status["filtering_wf"] = "failed" =>
          /\ status["write_derivative_wf"] = "pending"
          /\ status["nifti_reho_wf"] = "pending"
    /\ (status["censoring"] = "failed" \/ status["filtering_wf"] = "failed")
          => phase \in {"running", "aborted"}

\* a run aborted by a band-pass cutoff exactly at the Nyquist frequency
C7_Witness ==
    /\ phase = "aborted"
    /\ status["filtering_wf"] = "failed"
    /\ cfg.upper_bpf * 2 * cfg.TR = 1000
    /\ cfg.motion_filter_type # "none"
    /\ status["censoring"] = "done"

\* n * covariance and n * variance of two series of n frames
Cov(a, b) == Len(a) * Dot(a, b) - SumSeq(a) * SumSeq(b)

Var(a) == Cov(a, a)

\* absolute Pearson correlation of a and b below 0.01
CorrelationBelowHundredth(a, b) ==
    /\ Abs(Cov(a, b)) < 400
    /\ 10000 * Cov(a, b) * Cov(a, b) < Var(a) * Var(b)

\* column c of a table of rows
Column(rows, c) == [i \in 1..Len(rows) |-> rows[i][c]]

\* C8: the residual the regression produces correlates below 0.01 in absolute
\* value with every (non-constant) regressor column of the confound matrix the
\* regression emits.
C8_ResidualUncorrelated ==
    status["regression_wf"] = "done" =>
        LET res  == prod["regression_wf"].res_file
            rows == prod["regression_wf"].confound_matrix
        IN  /\ Len(rows) = Len(res)
            /\ \A c \in 1..Len(rows[1]) :
                  (Var(Column(rows, c)) > 0 /\ Var(res) > 0)
                      => CorrelationBelowHundredth(Column(rows, c), res)

\* a residual that varies, of a regression on two varying regressors
C8_Witness ==
    /\ status["regression_wf"] = "done"
    /\ Var(prod["regression_wf"].res_file) > 0
    /\ Len(prod["regression_wf"].confound_matrix[1]) = 2
    /\ \A c \in 1..2 : Var(Column(prod["regression_wf"].confound_matrix, c)) > 0

\* sinks fed, directly or through the metric workflows, by the filtered residual
FilteredSinks ==
    {"ds_report_connectivity", "ds_report_rehoplot", "ds_report_alffplot",
     "write_derivative_wf"}

SomeFailed(ns) == \E n \in ns : status[n] = "failed"

C10_LowCoverageFlagged ==
    (status["censoring"] = "done"
        /\ prod["censoring"].retained * 100
              < cfg.min_coverage * Len(prod["censoring"].tmask)) =>
        /\ prod["censoring"].low_coverage
        /\ status["regression_wf"] # "failed"
        /\ status["interpolation_wf"] # "failed"
        /\ status["filtering_wf"] # "failed"

\* the QC workflow is part of the graph and its qc_file is connected to the
\* derivatives writer
QcWired ==
    phase # "new" =>
        /\ "qc_report_wf" \in nodes
        /\ <<"qc_report_wf", "outputnode_qc_file", "write_derivative_wf",
             "inputnode_qc_file">> \in edges

\* the QC workflow has exported a qc_file and the derivatives writer has
\* written it
QcEmitted ==
    /\ status["qc_report_wf"] = "done"
    /\ status["write_derivative_wf"] = "done"
    /\ "inputnode_qc_file" \in prod["write_derivative_wf"].written

MaskConsumers ==
    {<<"interpolation_wf", "tmask">>, <<"qc_report_wf", "inputnode_tmask">>,
     <<"write_derivative_wf", "inputnode_tmask">>}

\* every consumer of the mask is connected to the censoring stage's tmask, and
\* one that has run was handed the value the censoring stage produced
MaskHandedVerbatim ==
    phase # "new" =>
        \A c \in MaskConsumers :
            /\ \A e \in edges :
                  (e[3] = c[1] /\ e[4] = c[2])
                      => (e[1] = "censoring" /\ e[2] = "tmask")
            /\ Ran(c[1]) =>
                  /\ status["censoring"] = "done"
                  /\ In(c[1], c[2]) = prod["censoring"].tmask

\* once the censoring stage has produced its outputs they never change
MaskWrittenOnce ==
    status["censoring"] = "done" =>
        /\ status'["censoring"] = "done"
        /\ prod'["censoring"] = prod["censoring"]

\* C12: the censoring mask is produced once, by the censoring stage, and never
\* changes afterwards; the Interpolator, the QC workflow and the derivatives
\* writer are each handed exactly that value, and the QC file reports it
\* unchanged.
C12_MaskImmutable ==
    /\ [][MaskWrittenOnce]_vars
    /\ []MaskHandedVerbatim
    /\ [](status["qc_report_wf"] = "done" =>
            prod["qc_report_wf"].outputnode_qc_file.tmask = prod["censoring"].tmask)

\* all three consumers have run on a mask that censors a frame
C12_Witness ==
    /\ \A c \in MaskConsumers : status[c[1]] = "done"
    /\ \E i \in 1..Len(prod["censoring"].tmask) : ~prod["censoring"].tmask[i]
    /\ \E i \in 1..Len(prod["censoring"].tmask) : prod["censoring"].tmask[i]

\* the metric stages of the run
MetricStages == {"nifti_reho_wf", "compute_alff_wf"} \cap nodes

\* C13: every metric stage (regional homogeneity, and ALFF when present) is
\* connected to the filter's filtered residual and to the censoring stage's
\* mask.
C13_MetricsConsumeMask ==
    phase # "new" =>
        \A n \in MetricStages :
            /\ \E e \in edges :
                  e[1] = "filtering_wf" /\ e[2] = "filtered_file" /\ e[3] = n
            /\ \E e \in edges :
                  e[1] = "censoring" /\ e[2] = "tmask" /\ e[3] = n

\* C14: when despike is enabled the despike stage runs before the regression
\* on frames that do not depend on the censoring mask (every frame the trimmer
\* left), and its output has as many frames as its input.
C14_DespikeIndependentOfMask ==
    (cfg.despike /\ status["despike3d"] = "done") =>
        /\ Ran("regression_wf") => status["despike3d"] = "done"
        /\ Len(In("despike3d", "in_file")) = Len(inp.bold) - DroppedFrames
        /\ Len(prod["despike3d"].out_file) = Len(In("despike3d", "in_file"))

\* the nodes the censoring stage takes its three frame-indexed inputs from
CensoringSources ==
    {e[1] : e \in {d \in edges :
        /\ d[3] = "censoring"
        /\ d[4] \in {"in_file", "confounds_file", "fmriprep_confounds_file"}}}

\* C15: with dummy-volume trimming enabled the censoring stage takes its
\* signal, its consolidated confounds and its motion/confound table all from
\* the trimmer, each with the same number of leading frames dropped; with
\* trimming disabled there is no trimmer and it receives all three untrimmed.
C15_TrimConsistent ==
    phase # "new" =>
        /\ IF Truthy(EffectiveDummyScans(cfg))
           THEN CensoringSources = {"remove_dummy_scans"}
           ELSE /\ "remove_dummy_scans" \notin nodes
                /\ "remove_dummy_scans" \notin CensoringSources
                /\ DroppedFrames = 0
        /\ Ran("censoring") =>
              /\ In("censoring", "in_file") = DropFirst(inp.bold, DroppedFrames)
              /\ In("censoring", "confounds_file")
                    = DropFirst(prod["consolidate_confounds_node"].out_file,
                                DroppedFrames)
              /\ In("censoring", "fmriprep_confounds_file")
                    = DropFirst(inp.table, DroppedFrames)
              /\ Truthy(EffectiveDummyScans(cfg))
                    => prod["remove_dummy_scans"].dummy_scans = DroppedFrames

\* the censoring stage ran on inputs from which the trimmer dropped two
\* frames it detected itself
C15_Witness ==
    /\ status["censoring"] = "done"
    /\ cfg.dummy_scans.auto
    /\ prod["remove_dummy_scans"].dummy_scans = 2
    /\ Len(In("censoring", "confounds_file")) = Len(inp.table) - 2

\* the stage boundaries: a stage, its signal input, and the confound table
\* that travels with the signal
InCensoring == <<In("censoring", "in_file"), In("censoring", "confounds_file")>>

InDespike ==
    <<In("despike3d", "in_file"), prod["censoring"].confounds_censored>>

InRegression == <<In("regression_wf", "in_file"), In("regression_wf", "confounds")>>

\* C16: in a run whose signal has as many frames as its confound table has
\* rows, the signal entering the censoring stage, the despike stage and the
\* regression has as many frames as the confound table travelling with it has
\* rows, whatever the trimming and despike gates; a stage handed a signal and
\* a table of different lengths fails, and no stage after it runs.
C16_FrameRowMatch ==
    /\ Len(inp.bold) = Len(inp.table) =>
          /\ Ran("censoring") =>
                /\ Len(InCensoring[1]) = Len(InCensoring[2])
                /\ Len(InCensoring[1])
                      = Len(In("censoring", "fmriprep_confounds_file"))
          /\ Ran("despike3d") =>
                /\ status["censoring"] = "done"
                /\ Len(InDespike[1]) = Len(InDespike[2])
          /\ Ran("regression_wf") => Len(InRegression[1]) = Len(InRegression[2])
    /\ (Ran("censoring") /\ Len(InCensoring[1]) # Len(InCensoring[2])) =>
          /\ status["censoring"] = "failed"
          /\ \A n \in {"despike3d", "regression_wf", "interpolation_wf",
                       "filtering_wf"} : ~Ran(n)
    /\ (Ran("regression_wf") /\ Len(InRegression[1]) # Len(InRegression[2])) =>
          /\ status["regression_wf"] = "failed"
          /\ \A n \in {"interpolation_wf", "filtering_wf"} : ~Ran(n)

\* the regression ran behind the trimmer and the despike stage on a series
\* with a censored frame
C16_Witness ==
    /\ status["regression_wf"] = "done"
    /\ status["despike3d"] = "done"
    /\ DroppedFrames = 1
    /\ Len(InRegression[1]) < Len(InCensoring[1])
    /\ Len(InRegression[1]) = Len(InRegression[2])

\* the censoring stage refused a signal shorter than its confound table
ShortSignalRefused ==
    /\ status["censoring"] = "failed"
    /\ Len(InCensoring[1]) < Len(InCensoring[2])
    /\ DroppedFrames = 1

\* cutoff values, in 1/100 Hz, below and above the Nyquist frequencies in use
CutoffChoices == {0, 8, 63}

\* the configuration of the run with other cutoffs
WithCutoffs(lo, up) == [cfg EXCEPT !.lower_bpf = lo, !.upper_bpf = up]

\* C17: the graph of the run is the graph of every configuration that differs
\* from it only in the cutoffs; the ALFF workflow, its figure sink and its
\* derivatives exist exactly when the bandpass flag is set; the filter stage
\* is always present, is told the flag itself, and with the flag off passes
\* its input through unchanged whatever the cutoffs.
C17_FlagDecides ==
    phase # "new" =>
        /\ \A lo \in CutoffChoices, up \in CutoffChoices :
              /\ nodes = BaseNodes \cup GatedNodes(WithCutoffs(lo, up))
              /\ edges = WorkflowEdges(WithCutoffs(lo, up))
              /\ FilteringDataParams(WithCutoffs(lo, up)).bandpass_filter
                    = cfg.bandpass_filter
        /\ "filtering_wf" \in nodes
        /\ \A n \in {"compute_alff_wf", "ds_report_alffplot"} :
              n \in nodes <=> cfg.bandpass_filter
        /\ (\E e \in edges : e[1] = "compute_alff_wf") <=> cfg.bandpass_filter
        /\ (~cfg.bandpass_filter /\ Ran("filtering_wf")) =>
              /\ status["filtering_wf"] = "done"
              /\ prod["filtering_wf"].filtered_file = In("filtering_wf", "in_file")

\* the filter passed its input through with the flag off and an upper cutoff
\* above the Nyquist frequency; no ALFF node exists
C17_Witness ==
    /\ ~cfg.bandpass_filter
    /\ status["filtering_wf"] = "done"
    /\ AtOrAboveNyquist(cfg.upper_bpf, cfg.TR)
    /\ "compute_alff_wf" \notin nodes
    /\ phase = "completed"

\* the nodes of ns left after repeatedly removing those fed by none of ns
RECURSIVE Peel(_)
Peel(ns) ==
    LET free == {n \in ns : \A e \in edges : e[3] = n => e[1] \notin ns}
    IN  IF free = {} THEN ns ELSE Peel(ns \ free)

\* the graph has just been built: nothing but the input node has run
JustBuilt ==
    /\ phase = "running"
    /\ \A n \in nodes \ {"inputnode"} : status[n] = "pending"

\* the optional nodes and the gate each exists under
GateOf ==
    [despike3d |-> cfg.despike,
     remove_dummy_scans |-> Truthy(EffectiveDummyScans(cfg)),
     compute_alff_wf |-> cfg.bandpass_filter]

\* every connection joins two nodes of the graph, the graph has no cycle, and
\* each optional stage is a node, and is connected on both sides, exactly when
\* its gate is set
GraphWellFormed ==
    JustBuilt =>
        /\ \A e \in edges : e[1] \in nodes /\ e[3] \in nodes
        /\ Peel(nodes) = {}
        /\ \A n \in DOMAIN GateOf :
              /\ n \in nodes <=> GateOf[n]
              /\ (\E e \in edges : e[3] = n) <=> GateOf[n]
              /\ (\E e \in edges : e[1] = n) <=> GateOf[n]

\* a step changes the status of a node only from pending to done or failed,
\* and after the graph is built the configuration and the graph never change
StepOnce ==
    /\ \A n \in AllNodes :
          status'[n] # status[n] =>
              \/ phase = "new"
              \/ status[n] = "pending" /\ status'[n] \in {"done", "failed"}
    /\ cfg' = cfg
    /\ phase # "new" => (nodes' = nodes /\ edges' = edges)

\* C18: every stage runs at most once (a node leaves pending once and never
\* returns, and the graph has no cycle for any combination of gates); the
\* gates are read from a configuration that never changes during the run, a
\* stage absent at the start stays absent, and the creation of an optional
\* stage and its connections agree on the gate.
C18_NoReentry == [][StepOnce]_vars /\ []GraphWellFormed

\* a finished run that skipped the despike stage and ran trimmer and ALFF
C18_Witness ==
    /\ phase = "completed"
    /\ status["despike3d"] = "absent"
    /\ status["remove_dummy_scans"] = "done"
    /\ status["compute_alff_wf"] = "done"
    /\ \A n \in nodes : status[n] = "done"

\* the two ways a run ends
Terminal == phase \in {"completed", "aborted"}

\* C19: every run of the fairly scheduled workflow ends, and stays, in one of
\* two states: completed, with the filtered residual produced and no stage
\* failed, or aborted, with the error of a failed stage recorded; a run in
\* which no stage fails ends completed, so no stage is left waiting for an
\* input that no stage produces.
C19_Terminates ==
    /\ <>[]Terminal
    /\ [][Terminal => phase' = phase]_vars
    /\ [](phase = "completed" =>
            /\ status["filtering_wf"] = "done"
            /\ \A n \in nodes : status[n] = "done"
            /\ errors = {})
    /\ [](phase = "aborted" =>
            /\ SomeFailed(nodes)
            /\ \E e \in errors : status[e.node] = "failed")

\* a completed run with every optional stage present and a censored frame
C19_Witness ==
    /\ phase = "completed"
    /\ \A n \in AllNodes : status[n] = "done"
    /\ Len(prod["filtering_wf"].filtered_file) = Len(inp.bold) - DroppedFrames
    /\ prod["censoring"].retained < Len(prod["censoring"].tmask)

\* an aborted run: the regression failed and the filter never ran
AbortedOnRegression ==
    /\ phase = "aborted"
    /\ status["regression_wf"] = "failed"
    /\ status["filtering_wf"] = "pending"

\* the signal-conditioning stages applied in order to the inputs of one run,
\* by itself: what stage n returns
Alone(c, i, n) ==
    LET cons == ConsolidateConfounds(i.table, i.custom, c.params).out.out_file
        trim == IF Truthy(EffectiveDummyScans(c))
                THEN RemoveTR(i.bold, cons, i.table, EffectiveDummyScans(c)).out
                ELSE [bold_file_dropped_TR |-> i.bold,
                      confounds_file_dropped_TR |-> cons,
                      fmriprep_confounds_file_dropped_TR |-> i.table]
        cen  == CensorScrub(trim.bold_file_dropped_TR,
                            trim.confounds_file_dropped_TR,
                            trim.fmriprep_confounds_file_dropped_TR,
                            c.head_radius, CensorScrubParams(c))
        sig  == IF c.despike THEN DespikePatch(cen.out.bold_censored).out.out_file
                ELSE cen.out.bold_censored
        reg  == Regress(sig, cen.out.confounds_censored, RegressParams(c))
        int  == Interpolate(reg.out.res_file, cen.out.tmask, i.bold,
                            InterpolateParams(c))
    IN  CASE n = "censoring" -> cen
          [] n = "regression_wf" -> reg
          [] n = "interpolation_wf" -> int
          [] n = "filtering_wf" -> FilteringData(int.out.bold_interpolated,
                                                 FilteringDataParams(c))

\* a finished run r holds the graph of its own configuration and, stage by
\* stage, what the stages return on its own inputs
AsAlone(r) ==
    r.phase \in {"completed", "aborted"} =>
        /\ r.nodes = BaseNodes \cup GatedNodes(r.cfg)
        /\ r.edges = WorkflowEdges(r.cfg)
        /\ \A n \in {"censoring", "regression_wf", "interpolation_wf",
                     "filtering_wf"} :
              /\ r.status[n] = "done" =>
                    /\ Alone(r.cfg, r.inp, n).ok
                    /\ r.prod[n] = Alone(r.cfg, r.inp, n).out
              /\ r.status[n] = "failed" => ~Alone(r.cfg, r.inp, n).ok

\* the files of run r in the output directory are those its own sinks wrote,
\* with the content they wrote
OwnFiles(r) ==
    /\ \A n \in r.files :
          [path |-> <<r.run, n>>, content |-> r.prod[n]] \in disk
    /\ \A f \in disk : f.path[1] = r.run => f.path[2] \in r.files

\* a step of one run leaves the other run as it was; turning to the other run
\* changes neither
Isolated ==
    IF run' = run THEN other' = other
    ELSE other' = ThisRun /\ disk' = disk

\* C20: of two runs whose stages interleave in any order, each has its own
\* graph and data products, no step of one changes anything of the other,
\* each finishes with the products its stages return on its own inputs, and
\* the output directory holds for each run exactly the files its own sinks
\* wrote.
C20_RunsIsolated ==
    /\ [][Isolated]_vars
    /\ [](AsAlone(ThisRun) /\ AsAlone(other))
    /\ [](OwnFiles(ThisRun) /\ OwnFiles(other))
    /\ [](\A f \in disk : f.path[1] \in {run, other.run})

\* both runs completed and wrote different design-matrix figures
C20_Witness ==
    /\ phase = "completed"
    /\ other # NoRun
    /\ other.phase = "completed"
    /\ \E f \in disk, g \in disk :
          /\ f.path = <<run, "ds_design_matrix_plot">>
          /\ g.path = <<other.run, "ds_design_matrix_plot">>
          /\ f.content # g.content

\* the input fields of the derivatives writer that carry the four data
\* products of a run, and the output each is connected to
DeliveredProducts ==
    {<<"filtering_wf", "filtered_file", "inputnode_processed_bold">>,
     <<"censoring", "tmask", "inputnode_tmask">>,
     <<"consolidate_confounds_node", "out_file", "inputnode_confounds_file">>,
     <<"censoring", "filtered_motion", "inputnode_filtered_motion">>}

\* the writer of a completed run has run, and was handed the filtered
\* residual, the mask, the design matrix and the displacement trace as their
\* stages produced them
ProductsDelivered ==
    phase = "completed" =>
        /\ status["write_derivative_wf"] = "done"
        /\ \A d \in DeliveredProducts :
              /\ \A e \in edges :
                    (e[3] = "write_derivative_wf" /\ e[4] = d[3])
                        => (e[1] = d[1] /\ e[2] = d[2])
              /\ d[3] \in prod["write_derivative_wf"].written
              /\ In("write_derivative_wf", d[3]) = prod[d[1]][d[2]]

\* the stages of the signal path of a run
SignalStages ==
    {"remove_dummy_scans", "censoring", "despike3d", "regression_wf",
     "interpolation_wf", "filtering_wf"} \cap nodes

\* the nodes that report on a run: the QC workflow and the derivatives writer
Reporters == {"qc_report_wf", "write_derivative_wf"}

\* C21: the writer of every completed run was handed the filtered residual,
\* the censoring mask, the consolidated design matrix and the
\* framewise-displacement trace, and every stage of the signal path hands an
\* output of its own to the nodes that report on the run, so that a status of
\* each stage can be reported.
C21_OutputsDelivered ==
    /\ ProductsDelivered
    /\ phase = "completed" =>
          \A n \in SignalStages :
              \E e \in edges : e[1] = n /\ e[3] \in Reporters

\* every input field of every node is fed by one connection
SingleFeed ==
    \A e1 \in edges, e2 \in edges :
        (e1[3] = e2[3] /\ e1[4] = e2[4]) => e1 = e2

\* the stage that produces the signal of the censoring stage, and the one that
\* produces the signal of the regression
SignalFeeds ==
    /\ \A e \in edges :
          (e[3] = "censoring" /\ e[4] = "in_file") =>
              e[1] = (IF "remove_dummy_scans" \in nodes THEN "remove_dummy_scans"
                      ELSE "downcast_data")
    /\ \A e \in edges :
          (e[3] = "regression_wf" /\ e[4] = "in_file") =>
              e[1] = (IF "despike3d" \in nodes THEN "despike3d" ELSE "censoring")

\* the censored, the interpolated and the filtered residual, and their stages
ResidualOwners ==
    {<<"res_file", "regression_wf">>,
     <<"bold_interpolated", "interpolation_wf">>,
     <<"filtered_file", "filtering_wf">>}

\* a residual is an output of its own stage and of no other node
OwnedByOneStage ==
    \A o \in ResidualOwners :
        /\ \A e \in edges : e[2] = o[1] => e[1] = o[2]
        /\ \A n \in nodes :
              (status[n] = "done" /\ o[1] \in DOMAIN prod[n]) => n = o[2]
        /\ status[o[2]] = "done" => o[1] \in DOMAIN prod[o[2]]

\* the products of a stage that is done are never written again
ReadOnlyAfterwards ==
    \A n \in AllNodes : status[n] = "done" => prod'[n] = prod[n]

\* C22: in every run, whatever the gates, every stage input is fed by one
\* connection; the censoring stage's signal comes from the trimmer when there
\* is one and from the downcast stage otherwise, the regression's from the
\* despike stage when there is one and from the censoring stage otherwise; the
\* censored, interpolated and filtered residuals are outputs of the
\* regression, the interpolator and the filter and of no other stage; and the
\* products of a finished stage never change.
C22_SingleOwner ==
    /\ [](phase # "new" => SingleFeed /\ SignalFeeds /\ OwnedByOneStage)
    /\ [][ReadOnlyAfterwards]_vars

\* a run with the trimmer and the despike stage whose three residuals exist:
\* the censoring stage took the trimmed signal, the regression the despiked
C22_Witness ==
    /\ status["filtering_wf"] = "done"
    /\ status["remove_dummy_scans"] = "done"
    /\ status["despike3d"] = "done"
    /\ In("censoring", "in_file") = prod["remove_dummy_scans"].bold_file_dropped_TR
    /\ In("censoring", "in_file") # prod["downcast_data"].bold_file
    /\ In("regression_wf", "in_file") = prod["despike3d"].out_file

\* the 'timeseries' estimate for a file of the given size and length
Timeseries(size, tlen) == CreateMemGb(size, tlen).timeseries

\* C23: the 'timeseries' memory estimate made for a run is at most the
\* estimate for any larger file of the same number of frames and at most the
\* estimate for any file of the same size with more frames.
C23_MemoryScales ==
    mem_gbx # NoOut =>
        /\ \A size \in FileSizes :
              size >= bold_fname.size =>
                  Timeseries(size, Len(inp.bold)) >= mem_gbx.timeseries
        /\ \A tlen \in FrameCounts :
              tlen >= Len(inp.bold) =>
                  Timeseries(bold_fname.size, tlen) >= mem_gbx.timeseries

\* C24: in a run with dummy-volume trimming, the censoring stage, the
\* regression and the interpolator are each handed a BOLD series and per-frame
\* data of the same number of frames; the BOLD file handed to the interpolator
\* has as many frames as the censoring mask handed to it.  The run is one
\* whose confound table has a row for every frame of its BOLD file.
C24_TrimmedEverywhere ==
    (Truthy(EffectiveDummyScans(cfg)) /\ Len(inp.bold) = Len(inp.table)) =>
        /\ Ran("censoring") =>
              /\ Len(In("censoring", "in_file"))
                    = Len(In("censoring", "confounds_file"))
              /\ Len(In("censoring", "in_file"))
                    = Len(In("censoring", "fmriprep_confounds_file"))
        /\ Ran("regression_wf") =>
              Len(In("regression_wf", "in_file"))
                  = Len(In("regression_wf", "confounds"))
        /\ Ran("interpolation_wf") =>
              Len(In("interpolation_wf", "bold_file"))
                  = Len(In("interpolation_wf", "tmask"))

\* C25: the description of the workflow states that initial volumes were
\* discarded exactly when the dummy-volume trimmer is part of the workflow,
\* for dummy_scans 0, positive, negative or "auto" and every dummytime.
C25_DescriptionMatchesTrimmer ==
    phase # "new" =>
        (DummyScansStr(cfg) # "" <=> "remove_dummy_scans" \in nodes)

----------------------------------------------------------------------------
(* The anatomical workflow built by init_anatomical_wf.  A node is known  *)
(* by the Python variable it is bound to; its name is the name= it is     *)
(* constructed with.                                                      *)

\* pairs <<variable, name>> of the nodes created in every case, in order
AnatCommon ==
    << <<"outputnode", "outputnode">>,
       <<"t1w_transform_wf", "t1w_transform">>,
       <<"seg_transform_wf", "seg_transform">>,
       <<"ds_t1wmni_wf", "ds_t1wmni_wf">>,
       <<"ds_t1wseg_wf", "ds_t1wseg_wf">> >>

\* the nodes created when the FreeSurfer directory exists
AnatSurface ==
    << <<"left_sphere_mris_wf", "left_sphere">>,
       <<"right_sphere_mris_wf", "right_sphere">>,
       <<"left_wm_surf_wf", "left_wm_surf">>,
       <<"left_pial_surf_wf", "left_pial_surf">>,
       <<"left_midthick_surf_wf", "left_midthick_surf">>,
       <<"left_inf_surf_wf", "left_inflated_surf">>,
       <<"right_wm_surf_wf", "right_wm_surf">>,
       <<"right_pial_surf_wf", "right_pial_surf">>,
       <<"right_midthick_surf_wf", "right_midthick_surf">>,
       <<"right_inf_surf_wf", "right_inflated_surf">>,
       <<"ds_wmLsurf_wf", "ds_wmLsurf_wf">>,
       <<"ds_wmRsurf_wf", "ds_wmRsur_wf">>,
       <<"ds_pialLsurf_wf", "ds_pialLsurf_wf">>,
       <<"ds_pialRsurf_wf", "ds_pialRsurf_wf">>,
       <<"ds_infLsurf_wf", "ds_infLsurf_wf">>,
       <<"ds_infRsurf_wf", "ds_infRsurf_wf">>,
       <<"ds_midLsurf_wf", "ds_midLsurf_wf">>,
       <<"ds_midRsurf_wf", "ds_midRsurf_wf">>,
       <<"pial2vol_wf", "pial2vol">>,
       <<"wm2vol_wf", "wm2vol">>,
       <<"addwmpial_wf", "addwpial">>,
       <<"t12mni_wf", "tw12mnib">>,
       <<"overlay2mni_wf", "overlay2mnib">>,
       <<"brainspritex_wf", "brainsprite">>,
       <<"ds_brainspriteplot_wf", "brainsprite">> >>

\* the nodes created when there is no FreeSurfer directory
AnatVolume ==
    << <<"brainspritex_wf", "brainsprite">>,
       <<"ds_brainspriteplot_wf", "brainsprite">> >>

\* the nodes init_anatomical_wf creates, in order
AnatCreated(freesurfer) ==
    AnatCommon \o (IF freesurfer THEN AnatSurface ELSE AnatVolume)

\* every node variable of the anatomical workflow
AnatObjects ==
    {(AnatCommon \o AnatSurface)[k][1] :
        k \in 1..(Len(AnatCommon) + Len(AnatSurface))}

\* the name of the node bound to variable n
AnatNodeName(n) ==
    LET all == AnatCommon \o AnatSurface
    IN  all[CHOOSE k \in 1..Len(all) : all[k][1] = n][2]

\* the sinks of the anatomical workflow: DerivativesDataSink nodes, all
\* constructed with run_without_submitting=True
AnatSinks ==
    {"ds_t1wmni_wf", "ds_t1wseg_wf", "ds_wmLsurf_wf", "ds_wmRsurf_wf",
     "ds_pialLsurf_wf", "ds_pialRsurf_wf", "ds_infLsurf_wf", "ds_infRsurf_wf",
     "ds_midLsurf_wf", "ds_midRsurf_wf", "ds_brainspriteplot_wf"}

AnatCommonEdges ==
    {<<"t1w_transform_wf", "output_image", "outputnode", "t1w_mni">>,
     <<"seg_transform_wf", "output_image", "outputnode", "seg_mni">>,
     <<"t1w_transform_wf", "output_image", "ds_t1wmni_wf", "in_file">>,
     <<"seg_transform_wf", "output_image", "ds_t1wseg_wf", "in_file">>}

AnatSurfaceEdges ==
    {<<"left_sphere_mris_wf", "out_file", n, "new_sphere">> :
        n \in {"left_wm_surf_wf", "left_pial_surf_wf", "left_midthick_surf_wf",
               "left_inf_surf_wf"}}
    \cup
    {<<"right_sphere_mris_wf", "out_file", n, "new_sphere">> :
        n \in {"right_wm_surf_wf", "right_pial_surf_wf", "right_midthick_surf_wf",
               "right_inf_surf_wf"}}
    \cup
    {<<"left_wm_surf_wf", "out_file", "ds_wmLsurf_wf", "in_file">>,
     <<"left_pial_surf_wf", "out_file", "ds_pialLsurf_wf", "in_file">>,
     <<"left_midthick_surf_wf", "out_file", "ds_midLsurf_wf", "in_file">>,
     <<"left_inf_surf_wf", "out_file", "ds_infLsurf_wf", "in_file">>,
     <<"right_wm_surf_wf", "out_file", "ds_wmRsurf_wf", "in_file">>,
     <<"right_pial_surf_wf", "out_file", "ds_pialRsurf_wf", "in_file">>,
     <<"right_midthick_surf_wf", "out_file", "ds_midRsurf_wf", "in_file">>,
     <<"right_inf_surf_wf", "out_file", "ds_infRsurf_wf", "in_file">>,
     <<"pial2vol_wf", "out_file", "addwmpial_wf", "in_file">>,
     <<"wm2vol_wf", "out_file", "addwmpial_wf", "operand_files">>,
     <<"addwmpial_wf", "out_file", "overlay2mni_wf", "input_image">>,
     <<"overlay2mni_wf", "output_image", "brainspritex_wf", "in_file">>,
     <<"t12mni_wf", "output_image", "brainspritex_wf", "template">>,
     <<"brainspritex_wf", "out_html", "ds_brainspriteplot_wf", "in_file">>}

AnatVolumeEdges ==
    {<<"t1w_transform_wf", "output_image", "brainspritex_wf", "template">>,
     <<"seg_transform_wf", "output_image", "brainspritex_wf", "in_file">>,
     <<"brainspritex_wf", "out_html", "ds_brainspriteplot_wf", "in_file">>}

AnatEdges(freesurfer) ==
    AnatCommonEdges \cup (IF freesurfer THEN AnatSurfaceEdges ELSE AnatVolumeEdges)

\* fnmatch.filter(all_files, '*hemi-<hemi>_<surf>.surf.gii')
SurfFiles(all_files, hemi, surf) ==
    {f \in all_files : f.hemi = hemi /\ f.surf = surf}

\* the file inputs node n is constructed with, as pairs <<input, files>>
AnatStaticFiles(n, i) ==
    CASE n = "pial2vol_wf" ->
            {<<"left_surf", SurfFiles(i.all_files, "R", "pial")>>,
             <<"right_surf", SurfFiles(i.all_files, "L", "pial")>>}
      [] n = "wm2vol_wf" ->
            {<<"left_surf", SurfFiles(i.all_files, "R", "smoothwm")>>,
             <<"right_surf", SurfFiles(i.all_files, "L", "smoothwm")>>}
      [] n = "left_wm_surf_wf" ->
            {<<"in_file", SurfFiles(i.all_files, "L", "smoothwm")>>}
      [] n = "left_pial_surf_wf" ->
            {<<"in_file", SurfFiles(i.all_files, "L", "pial")>>}
      [] n = "left_midthick_surf_wf" ->
            {<<"in_file", SurfFiles(i.all_files, "L", "midthickness")>>}
      [] n = "left_inf_surf_wf" ->
            {<<"in_file", SurfFiles(i.all_files, "L", "inflated")>>}
      [] n = "right_wm_surf_wf" ->
            {<<"in_file", SurfFiles(i.all_files, "R", "smoothwm")>>}
      [] n = "right_pial_surf_wf" ->
            {<<"in_file", SurfFiles(i.all_files, "R", "pial")>>}
      [] n = "right_midthick_surf_wf" ->
            {<<"in_file", SurfFiles(i.all_files, "R", "midthickness")>>}
      [] n = "right_inf_surf_wf" ->
            {<<"in_file", SurfFiles(i.all_files, "R", "inflated")>>}
      [] OTHER -> {}

\* what a node of the anatomical workflow returns: the files it was
\* constructed with and the outputs it was connected to
AnatOut(n) ==
    [name |-> AnatNodeName(n),
     files |-> AnatStaticFiles(n, inp),
     from |-> {<<e[4], e[1], e[2]>> : e \in {d \in edges : d[3] = n}}]

\* init_anatomical_wf: builds the graph
BuildAnatomical ==
    /\ phase = "new"
    /\ cfg.workflow = "anatomical_wf"
    /\ phase' = "running"
    /\ nodes' = {AnatCreated(cfg.freesurfer)[k][1] :
                    k \in 1..Len(AnatCreated(cfg.freesurfer))}
    /\ edges' = AnatEdges(cfg.freesurfer)
    /\ status' = [n \in AnatObjects |->
                    IF \E k \in 1..Len(AnatCreated(cfg.freesurfer)) :
                          AnatCreated(cfg.freesurfer)[k][1] = n
                    THEN "pending" ELSE "absent"]
    /\ prod' = [n \in AnatObjects |-> NoOut]
    /\ UNCHANGED <<cfg, inp, files, errors, run, other, disk, bold_fname,
                   mem_gbx>>

\* a node whose predecessors are done runs; the sinks it feeds, which are not
\* submitted to a worker, write their files at once
RunAnat ==
    \E n \in nodes \ AnatSinks :
        /\ Ready(n)
        /\ cfg.workflow = "anatomical_wf"
        /\ LET fed == {k \in AnatSinks \cap nodes : Upstream(k) = {n}}
           IN  /\ status' = [m \in AnatObjects |->
                                IF m = n \/ m \in fed THEN "done" ELSE status[m]]
               /\ prod' = [m \in AnatObjects |->
                              IF m = n \/ m \in fed THEN AnatOut(m) ELSE prod[m]]
               /\ files' = files \cup fed
               /\ disk' = disk \cup {[path |-> <<run, k>>, content |-> AnatOut(k)] :
                                        k \in fed}
        /\ UNCHANGED <<cfg, inp, phase, nodes, edges, errors, run, other,
                       bold_fname, mem_gbx>>

\* the surface files of a subject processed with FreeSurfer
AllSurfaces ==
    {[hemi |-> h, surf |-> sf] :
        h \in {"L", "R"},
        sf \in {"inflated", "midthickness", "pial", "smoothwm"}}

\* subjects with and without a FreeSurfer directory
AnatRuns ==
    {r \in {[cfg |-> [workflow |-> "anatomical_wf", freesurfer |-> fs,
                      subject_id |-> sub],
             inp |-> [all_files |-> IF fs THEN AllSurfaces ELSE {}]] :
                fs \in BOOLEAN, sub \in {"01", "sub-01"}} :
        r.cfg.freesurfer => r.cfg.subject_id = "sub-01"}

InitAnat ==
    \E r \in AnatRuns :
        /\ cfg = r.cfg
        /\ inp = r.inp
        /\ phase = "new"
        /\ nodes = {}
        /\ edges = {}
        /\ status = [n \in AnatObjects |-> "absent"]
        /\ prod = [n \in AnatObjects |-> NoOut]
        /\ files = {}
        /\ errors = {}
        /\ run = r.cfg.subject_id
        /\ disk = {}
        /\ other = NoRun
        /\ bold_fname = DefaultFile
        /\ mem_gbx = NoOut

NextAnat ==
    \/ BuildAnatomical
    \/ RunAnat
    \/ Finish

\* the anatomical workflow of a subject
SpecAnat == InitAnat /\ [][NextAnat]_vars

\* the names of the nodes init_boldpostprocess_wf creates, in order
BoldNodeNames(c) ==
    <<"inputnode", "downcast_data", "determine_head_radius", "fcons_ts_wf">>
    \o (IF c.bandpass_filter THEN <<"compute_alff_wf">> ELSE <<>>)
    \o <<"nifti_reho_wf", "write_derivative_wf", "censoring", "resd_smoothing_wf",
         "filtering_wf", "consolidate_confounds_node", "plot_design_matrix_node",
         "regression_wf", "interpolation_wf", "qc_report_wf">>
    \o (IF Truthy(EffectiveDummyScans(c)) THEN <<"remove_dummy_scans">> ELSE <<>>)
    \o (IF c.despike THEN <<"despike3d">> ELSE <<>>)
    \o <<"ds_design_matrix_plot", "ds_report_connectivity", "ds_report_rehoplot">>
    \o (IF c.bandpass_filter THEN <<"ds_report_alffplot">> ELSE <<>>)
    \o (IF c.dcan_qc THEN <<"executive_summary_wf">> ELSE <<>>)

\* the names of the nodes init_qc_report_wf creates, in order
QcReportNodeNames(cifti) ==
    <<"inputnode", "outputnode", "censor_report">>
    \o (IF ~cifti
        THEN <<"get_native2space_transforms", "warp_boldmask_to_t1w",
               "warp_boldmask_to_mni", "get_std2native_transform",
               "resample_parc">>
        ELSE <<>>)
    \o <<"qc_report", "qcsummary", "ds_report_censoring",
         "ds_report_qualitycontrol", "ds_report_preprocessing",
         "ds_report_postprocessing">>

\* no entry of the sequence occurs twice
Distinct(names) ==
    \A i \in 1..Len(names), j \in 1..Len(names) :
        i # j => names[i] # names[j]

\* the names of the nodes of the anatomical workflow, in order of creation
AnatNodeNames(freesurfer) ==
    [k \in 1..Len(AnatCreated(freesurfer)) |-> AnatCreated(freesurfer)[k][2]]

\* C27: no two nodes of the workflow that was built carry the same name, and
\* the same holds of the names init_boldpostprocess_wf creates under every
\* combination of gates and of those init_qc_report_wf creates with and
\* without cifti.
C27_UniqueNodeNames ==
    phase # "new" =>
        /\ \A a \in nodes, b \in nodes :
              a # b => AnatNodeName(a) # AnatNodeName(b)
        /\ Distinct(AnatNodeNames(cfg.freesurfer))
        /\ \A cifti \in BOOLEAN : Distinct(QcReportNodeNames(cifti))
        /\ \A d \in DummyChoices, ds \in BOOLEAN, bp \in BOOLEAN, qc \in BOOLEAN :
              Distinct(BoldNodeNames(
                  [Gated(DefaultCfg, d, ds, bp) EXCEPT !.dcan_qc = qc]))

\* the files given to input field f of a node that has run
GivenFiles(n, f) ==
    UNION {p[2] : p \in {q \in prod[n].files : q[1] = f}}

\* C28: the surface-to-volume stages of the pial and of the white-matter
\* surface are given the left-hemisphere surface as left_surf and the
\* right-hemisphere surface as right_surf.
C28_SurfaceSides ==
    \A n \in {"pial2vol_wf", "wm2vol_wf"} :
        (n \in nodes /\ status[n] = "done") =>
            /\ GivenFiles(n, "left_surf") # {}
            /\ GivenFiles(n, "right_surf") # {}
            /\ \A f \in GivenFiles(n, "left_surf") : f.hemi = "L"
            /\ \A f \in GivenFiles(n, "right_surf") : f.hemi = "R"

====
